---- MODULE Spec2Model ----
(***************************************************************************)
(* pygdtf: DMX channel resolution (pygdtf/utils/__init__.py,               *)
(* DmxMode in pygdtf/__init__.py), the DMX range calculation of            *)
(* DmxChannel._read_xml and the attribute provenance of the XML writer.    *)
(*                                                                         *)
(* Encodings.  Python None for a name is the string NoName; an absent      *)
(* offset (virtual channel) is the empty sequence NoOffset; the string     *)
(* sentinel "Overwrite" of dmx_break is the number Overwrite (TLC cannot   *)
(* compare a string with an integer); a DmxAddress is its .address field   *)
(* only, the one field the resolver reads.  Every channel record carries   *)
(* two history fields that the program does not have: src, the position of *)
(* the DMXChannel element it was parsed from (0 for a synthesized          *)
(* channel), and inst, the name of the geometry node it was paired with in *)
(* the (channel, geometry) tuples of _get_channels_for_geometry.           *)
(***************************************************************************)
EXTENDS Integers, Sequences, FiniteSets, TLC

\* ---------------------------------------------------------------- bounds
MaxChannels == 2
MaxOffset == 2
MaxBreak == 2
MaxAddress == 2
MaxBreakEntries == 2
MaxFunctions == 3
MaxBytes == 2

\* ------------------------------------------------------------- encodings
Overwrite == 0
NoName == "<None>"
NoOffset == <<>>

VARIABLES
    geometries,             \* FixtureType.geometries, the authored trees
    xml_geometry,           \* the Geometry attribute of the DMXMode element
    geometry,               \* DmxMode.geometry of the constructed mode
    source,                 \* the DMXChannel elements of the source document
    _dmx_channels,          \* DmxMode._dmx_channels, the authored channels
    dmx_channels,           \* DmxMode.dmx_channels, resolved and flattened
    virtual_channels,       \* DmxMode.virtual_channels
    dmx_breaks,             \* DmxMode.dmx_breaks
    dmx_channels_count,     \* DmxMode.dmx_channels_count
    virtual_channels_count, \* DmxMode.virtual_channels_count
    written,                \* DMXChannel children written by DmxMode.to_xml
    pc,                     \* position of the caller
    channel_offset,         \* DmxChannel.offset of the channel being parsed
    function_elements,      \* DMXFrom of its ChannelFunction elements
    channel_functions,      \* LogicalChannel.channel_functions
    set_function,           \* position of the function whose sets are given
    set_elements,           \* DMXFrom of the ChannelSet elements of that function
    channel_sets,           \* its ChannelFunction.channel_sets
    rpc,                    \* position of the channel parse
    element_tag,            \* tag of the element given to the writer path
    element_attrib,         \* xml_node.attrib of that element
    node,                   \* the object parsed from it
    api_set,                \* the field a caller has assigned since the parse
    output_attrib,          \* attrs of the element to_xml returns
    wpc,                    \* position of the parse/write caller
    templates,              \* the Annex B attribute table, as loaded
    attr_names,             \* attribute links of the channels, in document order
    attributes,             \* FixtureType.attributes, the authored dictionary
    regenerated,            \* what regenerate_attribute_definitions returns
    apc,                    \* position of its caller
    call,                   \* arguments of a call of a value function
    result,                 \* what the call returns
    vpc,                    \* position of the caller of the value function
    file,                   \* the file a fixture type is loaded from
    fixture,                \* the FixtureType object, or the exception raised
    lpc,                    \* position of the caller of the loading
    fixture_type,           \* the FixtureType given to the writer
    writer,                 \* the FixtureTypeWriter, once constructed
    packages,               \* what each write_gdtf call wrote, in call order
    profile,                \* the geometry collection walked, its root and the walk
    frames,                 \* the calls of the walk that have not returned
    geometries_list,        \* the list the walk returns
    kpc,                    \* position of the caller of the walk
    expand_templates,       \* templates["attributes"] of the expansion
    expand_names,           \* attr_names given to _expand_attribute_dependencies
    expand_queue,           \* its local queue
    expand_seen,            \* its local seen
    expand_ordered,         \* its local ordered, the list it returns
    epc                     \* position of the expansion

modeVars == <<geometries, xml_geometry, geometry, source, _dmx_channels, dmx_channels,
              virtual_channels, dmx_breaks, dmx_channels_count,
              virtual_channels_count, written, pc>>

rangeVars == <<channel_offset, function_elements, channel_functions, set_function,
               set_elements, channel_sets, rpc>>

writerVars == <<element_tag, element_attrib, node, api_set, output_attrib, wpc>>

attrVars == <<templates, attr_names, attributes, regenerated, apc>>

valueVars == <<call, result, vpc>>

loadVars == <<file, fixture, lpc>>

packageVars == <<fixture_type, writer, packages>>

walkVars == <<profile, frames, geometries_list, kpc>>
expandVars == <<expand_templates, expand_names, expand_queue, expand_seen,
                expand_ordered, epc>>

vars == <<modeVars, rangeVars, writerVars, attrVars, valueVars, loadVars, packageVars,
          walkVars, expandVars>>

\* what an operation on one object leaves alone
notMode == <<rangeVars, writerVars, attrVars, valueVars, loadVars,
    packageVars, walkVars, expandVars>>

notRange == <<modeVars, writerVars, attrVars, valueVars, loadVars,
    packageVars, walkVars, expandVars>>

notWriter == <<modeVars, rangeVars, attrVars, valueVars, loadVars,
    packageVars, walkVars, expandVars>>

notAttr == <<modeVars, rangeVars, writerVars, valueVars, loadVars,
    packageVars, walkVars, expandVars>>

notValue == <<modeVars, rangeVars, writerVars, attrVars, loadVars,
    packageVars, walkVars, expandVars>>

notLoad == <<modeVars, rangeVars, writerVars, attrVars, valueVars,
    packageVars, walkVars, expandVars>>

notPackage == <<modeVars, rangeVars, writerVars, attrVars, valueVars, loadVars, walkVars,
    expandVars>>

notWalk == <<modeVars, rangeVars, writerVars, attrVars, valueVars, loadVars, packageVars,
    expandVars>>
notExpand == <<modeVars, rangeVars, writerVars, attrVars, valueVars, loadVars, packageVars,
    walkVars>>

\* ------------------------------------------------------ sequence helpers
Last(s) == s[Len(s)]

Range(s) == {s[i] : i \in 1..Len(s)}

RECURSIVE SeqMax(_)
SeqMax(s) == IF s = <<>> THEN 0
             ELSE LET m == SeqMax(Tail(s)) IN IF Head(s) > m THEN Head(s) ELSE m

RECURSIVE Flatten(_)
Flatten(ss) == IF ss = <<>> THEN <<>> ELSE Head(ss) \o Flatten(Tail(ss))

\* ------------------------------------------------------- geometry nodes
Geometry(name, children) ==
    [name |-> name, kind |-> "Geometry", geometry |-> NoName,
     breaks |-> <<>>, geometries |-> children]

GeometryReference(name, target, breaks) ==
    [name |-> name, kind |-> "GeometryReference", geometry |-> target,
     breaks |-> breaks, geometries |-> <<>>]

Break(dmx_break, dmx_offset) == [dmx_break |-> dmx_break, dmx_offset |-> dmx_offset]

NoGeometry == [name |-> NoName, kind |-> "None", geometry |-> NoName,
               breaks |-> <<>>, geometries |-> <<>>]

\* hasattr(geometry, "geometries"): every Geometry class, not GeometryReference
HasGeometries(g) == g.kind = "Geometry"

\* hasattr(geometry, "breaks"): only a parsed GeometryReference
HasBreaks(g) == g.kind = "GeometryReference"

RECURSIVE iterate_geometries(_, _, _)
iterate_geometries(collector, isList, geometry_name) ==
    IF isList
    THEN IF collector = <<>> THEN <<>>
         ELSE LET g == Head(collector) IN
              (IF g.name = geometry_name THEN <<g>> ELSE <<>>)
              \o (IF HasGeometries(g)
                  THEN iterate_geometries(g, FALSE, geometry_name) ELSE <<>>)
              \o iterate_geometries(Tail(collector), TRUE, geometry_name)
    ELSE (IF collector.name = geometry_name THEN <<collector>> ELSE <<>>)
         \o iterate_geometries(collector.geometries, TRUE, geometry_name)

get_geometry_by_name(coll, geometry_name) ==
    LET matched == iterate_geometries(coll, TRUE, geometry_name) IN
    IF matched # <<>> THEN matched[1] ELSE NoGeometry

\* ------------------------------------------------------------- channels
DmxChannel(attribute, dmx_break, offset, geom, src) ==
    [attribute |-> attribute, dmx_break |-> dmx_break, offset |-> offset,
     geometry |-> geom, overwrite |-> FALSE, src |-> src, inst |-> NoName]

\* indices of the channels mounted on geometry_name, in list order
_get_channels_by_geometry(geometry_name, channels) ==
    SelectSeq([i \in 1..Len(channels) |-> i],
              LAMBDA i : channels[i].geometry = geometry_name)

_get_address_by_break_first(dmx_breaks_, value, overwrite) ==
    IF dmx_breaks_ # <<>> THEN dmx_breaks_[1].dmx_offset ELSE 0
\* the address of the Break entry for break value: the last entry for an
\* overwrite channel, else the first entry of that break, else None (0)
_get_address_by_break(dmx_breaks_, value, overwrite) ==
    IF overwrite THEN Last(dmx_breaks_).dmx_offset
    ELSE LET hits == SelectSeq(dmx_breaks_, LAMBDA item : item.dmx_break = value) IN
         IF hits # <<>> THEN hits[1].dmx_offset ELSE 0

\* one iteration of the loop over the matched channels: st.chans is the
\* authored list (the overwrite flag is set on the authored object),
\* st.list the (channel, geometry) tuples collected so far
CollectChannel(st, i, g) ==
    LET channel == st.chans[i]
        isRef == g.kind = "GeometryReference"
        ow == channel.dmx_break = Overwrite
        copy1 == [channel EXCEPT !.geometry = g.name,
                     !.dmx_break = IF ow
                                   THEN IF Len(g.breaks) > 0
                                        THEN Last(g.breaks).dmx_break ELSE 1
                                   ELSE @]
        marked == IF isRef /\ ow THEN [channel EXCEPT !.overwrite = TRUE] ELSE channel
        copy2 == [marked EXCEPT !.dmx_break = 1]
        item == IF ow THEN copy2 ELSE IF isRef THEN copy1 ELSE channel
    IN [chans |-> [st.chans EXCEPT ![i] = marked],
        list |-> Append(st.list, [channel |-> [item EXCEPT !.inst = g.name],
                                  geometry |-> g])]

RECURSIVE CollectChannels(_, _, _)
CollectChannels(st, idxs, g) ==
    IF idxs = <<>> THEN st
    ELSE CollectChannels(CollectChannel(st, Head(idxs), g), Tail(idxs), g)

MatchedName_own(g) == g.name
\* the name the channels are matched against: geometry.name, for a
\* GeometryReference geometry.geometry, the name of its target
MatchedName(g) == IF g.kind = "GeometryReference" THEN g.geometry ELSE g.name

RECURSIVE _get_channels_for_geometry(_, _)
RECURSIVE CollectSubGeometries(_, _)
_get_channels_for_geometry(g, st) ==
    IF g.kind = "None" THEN [chans |-> st.chans, list |-> <<>>]
    ELSE LET name == MatchedName(g)
             st1 == CollectChannels(st, _get_channels_by_geometry(name, st.chans), g)
         IN IF HasGeometries(g) THEN CollectSubGeometries(g.geometries, st1) ELSE st1

CollectSubGeometries(subs, st) ==
    IF subs = <<>> THEN st
    ELSE CollectSubGeometries(Tail(subs), _get_channels_for_geometry(Head(subs), st))

\* ------------------------------------------------------------ resolution
\* the root geometry of get_dmx_channels, with the single-tree fallback
DmxRootGeometry(coll, mode_geometry) ==
    LET root_geometry == get_geometry_by_name(coll, mode_geometry) IN
    IF root_geometry.kind = "None" /\ Len(coll) = 1 THEN coll[1] ELSE root_geometry

\* dmx_breaks[-1] of an empty list: IndexError in _get_address_by_break
RaisesIndexError(item) ==
    /\ item.channel.offset # NoOffset
    /\ HasBreaks(item.geometry)
    /\ item.channel.overwrite
    /\ item.geometry.breaks = <<>>

\* one iteration of "for channel, geometry in device_channels"; lists[b] is
\* the list of break b, a slot is <<>> (None) or <<channel>>
PlaceChannel(lists, item) ==
    IF item.channel.offset = NoOffset THEN lists
    ELSE
    LET channel_break == item.channel.dmx_break
        grown == lists \o [k \in 1..(channel_break - Len(lists)) |-> <<>>]
        dmx_offset == IF HasBreaks(item.geometry)
                      THEN _get_address_by_break(item.geometry.breaks, channel_break,
                                                 item.channel.overwrite)
                      ELSE 0
        break_addition == IF dmx_offset # 0 THEN dmx_offset - 1 ELSE 0
        _offsets == [i \in 1..Len(item.channel.offset) |->
                        item.channel.offset[i] + break_addition]
        channel == [item.channel EXCEPT !.offset = _offsets]
        max_offset == SeqMax(_offsets)
        old == grown[channel_break]
        break_channels == old \o [k \in 1..(max_offset - Len(old)) |-> <<>>]
    IN [grown EXCEPT ![channel_break] =
            [break_channels EXCEPT ![_offsets[1]] = <<channel>>]]

RECURSIVE PlaceChannels(_, _)
PlaceChannels(lists, items) ==
    IF items = <<>> THEN lists
    ELSE PlaceChannels(PlaceChannel(lists, Head(items)), Tail(items))

\* result[b] is the channel list of break b; chans the authored list with
\* the overwrite flags the walk has set; error an IndexError
get_dmx_channels(coll, mode_geometry, chans) ==
    LET st == _get_channels_for_geometry(DmxRootGeometry(coll, mode_geometry),
                                         [chans |-> chans, list |-> <<>>])
        error == \E k \in 1..Len(st.list) : RaisesIndexError(st.list[k])
        lists == IF error THEN <<>> ELSE PlaceChannels(<<>>, st.list)
    IN [chans |-> st.chans,
        error |-> error,
        result |-> [b \in 1..Len(lists) |->
                       Flatten(SelectSeq(lists[b], LAMBDA slot : slot # <<>>))]]

\* no fallback here: the root is the geometry the mode names, or None
get_virtual_channels(coll, mode_geometry, chans) ==
    LET st == _get_channels_for_geometry(get_geometry_by_name(coll, mode_geometry),
                                         [chans |-> chans, list |-> <<>>])
        device_channels == [k \in 1..Len(st.list) |-> st.list[k].channel]
    IN [chans |-> st.chans,
        result |-> SelectSeq(device_channels, LAMBDA channel : channel.offset = NoOffset)]

\* grouped_breaks: the break numbers in order of first appearance
RECURSIVE grouped_breaks(_, _)
grouped_breaks(channels, keys) ==
    IF channels = <<>> THEN keys
    ELSE grouped_breaks(Tail(channels),
                        IF \E k \in 1..Len(keys) : keys[k] = Head(channels).dmx_break
                        THEN keys ELSE Append(keys, Head(channels).dmx_break))

DmxModeBreak(dmx_break, channels) ==
    [dmx_break |-> dmx_break,
     channels_count |-> Cardinality(UNION {Range(channels[k].offset) :
                            k \in {j \in 1..Len(channels) : channels[j].dmx_break = dmx_break}})]

RECURSIVE SeqSum(_)
SeqSum(s) == IF s = <<>> THEN 0 ELSE Head(s) + SeqSum(Tail(s))

\* the break list and the counts of DmxMode._process_dmx_channels
CountChannels(error, chans, flattened_channels, virtual) ==
    LET keys == grouped_breaks(flattened_channels, <<>>)
        breaks == [k \in 1..Len(keys) |-> DmxModeBreak(keys[k], flattened_channels)]
    IN [error |-> error,
        _dmx_channels |-> chans,
        dmx_channels |-> flattened_channels,
        virtual_channels |-> virtual,
        dmx_breaks |-> breaks,
        dmx_channels_count |-> SeqSum([k \in 1..Len(breaks) |-> breaks[k].channels_count]),
        virtual_channels_count |-> Len(virtual)]

\* the virtual channels, collected after the DMX channels d
CollectVirtual(coll, mode_geometry, d, v) ==
    CountChannels(d.error, v.chans, Flatten(d.result), v.result)

\* the fields DmxMode._process_dmx_channels assigns, from the authored list
ProcessCollected(coll, mode_geometry, d) ==
    CollectVirtual(coll, mode_geometry, d, get_virtual_channels(coll, mode_geometry, d.chans))

_process_dmx_channels(coll, mode_geometry, chans) ==
    ProcessCollected(coll, mode_geometry, get_dmx_channels(coll, mode_geometry, chans))

RECURSIVE HighestOffset(_, _)
HighestOffset(channels, highest_offset) ==
    IF channels = <<>> THEN highest_offset
    ELSE LET channel == Head(channels) IN
         HighestOffset(Tail(channels),
                       IF channel.offset # NoOffset /\ channel.offset[1] > highest_offset
                       THEN SeqMax(channel.offset) ELSE highest_offset)

\* the addresses 1..highest_offset found in no resolved channel, ascending
MissingOffsets(channels) ==
    LET highest_offset == HighestOffset(channels, 0) IN
    IF Len(channels) # highest_offset
    THEN SelectSeq([i \in 1..highest_offset |-> i],
                   LAMBDA i : ~ \E k \in 1..Len(channels) :
                                  /\ channels[k].offset # NoOffset
                                  /\ i \in Range(channels[k].offset))
    ELSE <<>>

\* a NoFeature channel for every missing address, appended to the authored list
AppendMissing(missing, chans, mode_geometry) ==
    [result |-> missing # <<>>,
     chans |-> chans \o [k \in 1..Len(missing) |->
                  DmxChannel("NoFeature", 1, <<missing[k]>>, mode_geometry, 0)]]

\* result: whether a channel was missing; chans: the authored list after it
_check_for_missing_channels(channels, chans, mode_geometry) ==
    AppendMissing(MissingOffsets(channels), chans, mode_geometry)

\* "if self._check_for_missing_channels(): self._process_dmx_channels()"
ProcessAgain(coll, mode_geometry, first, check) ==
    IF check.result THEN _process_dmx_channels(coll, mode_geometry, check.chans)
    ELSE first

CheckProcessed(coll, mode_geometry, first) ==
    IF first.error THEN first
    ELSE ProcessAgain(coll, mode_geometry, first,
                      _check_for_missing_channels(first.dmx_channels,
                                                  first._dmx_channels, mode_geometry))

\* DmxMode._read_xml from the parsed authored list on: resolve, add the
\* missing channels, resolve once more if any was added
DmxMode_read_xml(coll, mode_geometry, chans) ==
    CheckProcessed(coll, mode_geometry, _process_dmx_channels(coll, mode_geometry, chans))

\* DmxChannel._read_xml: DMXBreak, Offset and Geometry of element number i
ParseChannel(element, i) ==
    DmxChannel("Dimmer", element.dmx_break, element.offset, element.geometry, i)

\* DmxMode.to_xml: one DMXChannel child per channel of _dmx_channels, or of
\* dmx_channels when the authored list is empty
DmxMode_to_xml(chans, resolved) ==
    LET channels_source == IF chans # <<>> THEN chans ELSE resolved IN
    [k \in 1..Len(channels_source) |->
        [dmx_break |-> channels_source[k].dmx_break,
         offset |-> channels_source[k].offset,
         geometry |-> channels_source[k].geometry,
         src |-> channels_source[k].src]]

\* ---------------------------------------------------------------- inputs
MaxApiChannels == 2

Breaks == 1..MaxBreak

\* absent, one byte, or coarse and fine at increasing addresses
Offsets == {NoOffset} \cup {<<a>> : a \in 1..MaxOffset}
           \cup {q \in (1..MaxOffset) \X (1..MaxOffset) : q[1] < q[2]}

ChannelGeometries == {"Base", "Head", "Sub"}

ChannelElements ==
    [dmx_break : Breaks \cup {Overwrite}, offset : Offsets, geometry : ChannelGeometries]

Sources == UNION {[1..n -> ChannelElements] : n \in 0..MaxChannels}

BreakEntries == {Break(b, a) : b \in Breaks, a \in 1..MaxAddress}

BreakLists == UNION {[1..n -> BreakEntries] : n \in 0..MaxBreakEntries}

\* the second reference repeats the Break entries of the first, three
\* addresses up
NextAddress(breaks) ==
    [k \in 1..Len(breaks) |-> Break(breaks[k].dmx_break, breaks[k].dmx_offset + 3)]

\* Base holds two references to Head, and Head holds Sub
ReferenceCollection(b1) ==
    <<Geometry("Base", <<GeometryReference("R1", "Head", b1),
                         GeometryReference("R2", "Head", NextAddress(b1))>>),
      Geometry("Head", <<Geometry("Sub", <<>>)>>)>>

\* one geometry tree only
SingleCollection == <<Geometry("Base", <<Geometry("Sub", <<>>)>>)>>

\* (geometries, mode geometry): the mode names Base, or names nothing and
\* the fixture has a single tree
Fixtures ==
    {<<ReferenceCollection(b1), "Base">> : b1 \in BreakLists}
    \cup {<<SingleCollection, "Base">>, <<SingleCollection, NoName>>}

\* ------------------------------------------------------------ the machine
\* no DmxMode is under construction
ModeIdle ==
    /\ geometries = <<>>
    /\ xml_geometry = NoName
    /\ geometry = NoName
    /\ source = <<>>
    /\ _dmx_channels = <<>>
    /\ dmx_channels = <<>>
    /\ virtual_channels = <<>>
    /\ dmx_breaks = <<>>
    /\ dmx_channels_count = 0
    /\ virtual_channels_count = 0
    /\ written = <<>>
    /\ pc = "idle"

\* no DmxChannel is being parsed
RangeIdle ==
    /\ channel_offset = NoOffset
    /\ function_elements = <<>>
    /\ channel_functions = <<>>
    /\ set_function = 0
    /\ set_elements = <<>>
    /\ channel_sets = <<>>
    /\ rpc = "idle"

\* no element is on the parse/write path
WriterIdle ==
    /\ element_tag = NoName
    /\ element_attrib = <<>>
    /\ node = <<>>
    /\ api_set = NoName
    /\ output_attrib = <<>>
    /\ wpc = "idle"

\* no attribute dictionary is being regenerated
AttrIdle ==
    /\ templates = <<>>
    /\ attr_names = <<>>
    /\ attributes = <<>>
    /\ regenerated = <<>>
    /\ apc = "idle"

\* no value function is being called
ValueIdle ==
    /\ call = <<>>
    /\ result = <<>>
    /\ vpc = "idle"

\* no file is being loaded
LoadIdle ==
    /\ file = <<>>
    /\ fixture = <<>>
    /\ lpc = "idle"

\* no fixture type is given to a writer
PackageIdle ==
    /\ fixture_type = <<>>
    /\ writer = <<>>
    /\ packages = <<>>

\* no attribute list is being expanded
ExpandIdle ==
    /\ expand_templates = <<>>
    /\ expand_names = <<>>
    /\ expand_queue = <<>>
    /\ expand_seen = {}
    /\ expand_ordered = <<>>
    /\ epc = "idle"

\* no geometry collection is being walked
WalkIdle ==
    /\ profile = <<>>
    /\ frames = <<>>
    /\ geometries_list = <<>>
    /\ kpc = "idle"

Init ==
    /\ RangeIdle
    /\ WriterIdle
    /\ AttrIdle
    /\ ValueIdle
    /\ LoadIdle
    /\ PackageIdle
    /\ WalkIdle
    /\ ExpandIdle
    /\ \E f \in Fixtures : geometries = f[1] /\ xml_geometry = f[2]
    /\ geometry = NoName
    /\ source \in Sources
    /\ _dmx_channels = <<>>
    /\ dmx_channels = <<>>
    /\ virtual_channels = <<>>
    /\ dmx_breaks = <<>>
    /\ dmx_channels_count = 0
    /\ virtual_channels_count = 0
    /\ written = <<>>
    /\ pc = "new"

Assign(m) ==
    /\ _dmx_channels' = m._dmx_channels
    /\ dmx_channels' = m.dmx_channels
    /\ virtual_channels' = m.virtual_channels
    /\ dmx_breaks' = m.dmx_breaks
    /\ dmx_channels_count' = m.dmx_channels_count
    /\ virtual_channels_count' = m.virtual_channels_count

\* FixtureType(dsc_file=...): DmxMode._read_xml, then a mode without a
\* geometry is given the name of the first tree; an IndexError leaves no model
ReadXml ==
    /\ pc = "new"
    /\ \E m \in {DmxMode_read_xml(geometries, xml_geometry,
                       [i \in 1..Len(source) |-> ParseChannel(source[i], i)])} :
          IF m.error
          THEN /\ pc' = "error"
               /\ UNCHANGED <<geometry, _dmx_channels, dmx_channels, virtual_channels,
                              dmx_breaks, dmx_channels_count, virtual_channels_count>>
          ELSE /\ pc' = "loaded"
               /\ geometry' = IF xml_geometry = NoName /\ geometries # <<>>
                              THEN geometries[1].name ELSE xml_geometry
               /\ Assign(m)
    /\ UNCHANGED <<geometries, xml_geometry, source, written, notMode>>

\* mode._process_dmx_channels() called again on the loaded mode
Resolve ==
    /\ pc \in {"loaded", "resolved"}
    /\ \E m \in {_process_dmx_channels(geometries, geometry, _dmx_channels)} :
          IF m.error
          THEN /\ pc' = "error"
               /\ UNCHANGED <<_dmx_channels, dmx_channels, virtual_channels, dmx_breaks,
                              dmx_channels_count, virtual_channels_count>>
          ELSE /\ pc' = "resolved"
               /\ Assign(m)
    /\ UNCHANGED <<geometries, xml_geometry, geometry, source, written,
                   notMode>>

\* FixtureTypeWriter: the DMXChannels children of the written DMXMode
ToXml ==
    /\ pc \in {"loaded", "resolved"}
    /\ written' = DmxMode_to_xml(_dmx_channels, dmx_channels)
    /\ pc' = "written"
    /\ UNCHANGED <<geometries, xml_geometry, geometry, source, _dmx_channels,
                   dmx_channels, virtual_channels, dmx_breaks, dmx_channels_count,
                   virtual_channels_count, notMode>>

Next == ReadXml \/ Resolve \/ ToXml

Spec == Init /\ [][Next]_vars

\* ------------------------------------------- a mode built through the API
\* DmxChannel(dmx_break=..., offset=..., geometry=...) objects of the caller
ApiChannels ==
    {DmxChannel("Dimmer", b, o, g, 0) :
        b \in {1, Overwrite}, o \in {NoOffset, <<1>>, <<2>>}, g \in {"Base", "Head"}}

ApiChannelLists == UNION {[1..n -> ApiChannels] : n \in 0..MaxApiChannels}

\* the geometry collections the caller sets on the fixture type
ApiCollections ==
    {SingleCollection, ReferenceCollection(<<>>), ReferenceCollection(<<Break(1, 1)>>)}

\* DmxMode.__init__ without xml_node: the arguments are stored and every
\* derived field takes its default
DmxMode_init(mode_geometry, chans) ==
    [geometry |-> mode_geometry, _dmx_channels |-> chans, dmx_channels |-> <<>>,
     virtual_channels |-> <<>>, dmx_breaks |-> <<>>, dmx_channels_count |-> 0,
     virtual_channels_count |-> 0]

EditInit ==
    /\ RangeIdle
    /\ WriterIdle
    /\ AttrIdle
    /\ ValueIdle
    /\ LoadIdle
    /\ PackageIdle
    /\ WalkIdle
    /\ ExpandIdle
    /\ geometries \in ApiCollections
    /\ xml_geometry = NoName
    /\ geometry = NoName
    /\ source = <<>>
    /\ _dmx_channels = <<>>
    /\ dmx_channels = <<>>
    /\ virtual_channels = <<>>
    /\ dmx_breaks = <<>>
    /\ dmx_channels_count = 0
    /\ virtual_channels_count = 0
    /\ written = <<>>
    /\ pc = "api"

\* DmxMode(geometry="Base", _dmx_channels=[...], fixture_type=fixture_type)
Construct ==
    /\ pc = "api"
    /\ \E chans \in ApiChannelLists :
          \E m \in {DmxMode_init("Base", chans)} :
             /\ geometry' = m.geometry
             /\ Assign(m)
    /\ pc' = "constructed"
    /\ UNCHANGED <<geometries, xml_geometry, source, written, notMode>>

\* mode._dmx_channels.append(channel): a call of list, no method of DmxMode
AppendChannel ==
    /\ pc \in {"constructed", "processed"}
    /\ Len(_dmx_channels) < MaxApiChannels
    /\ \E channel \in ApiChannels : _dmx_channels' = Append(_dmx_channels, channel)
    /\ pc' = "constructed"
    /\ UNCHANGED <<geometries, xml_geometry, geometry, source, dmx_channels,
                   virtual_channels, dmx_breaks, dmx_channels_count,
                   virtual_channels_count, written, notMode>>

\* del mode._dmx_channels[k]
RemoveChannel ==
    /\ pc \in {"constructed", "processed"}
    /\ \E k \in 1..Len(_dmx_channels) :
          _dmx_channels' = SubSeq(_dmx_channels, 1, k - 1)
                           \o SubSeq(_dmx_channels, k + 1, Len(_dmx_channels))
    /\ pc' = "constructed"
    /\ UNCHANGED <<geometries, xml_geometry, geometry, source, dmx_channels,
                   virtual_channels, dmx_breaks, dmx_channels_count,
                   virtual_channels_count, written, notMode>>

\* fixture_type.geometries = another collection
EditGeometry ==
    /\ pc \in {"constructed", "processed"}
    /\ \E coll \in ApiCollections \ {geometries} : geometries' = coll
    /\ pc' = "constructed"
    /\ UNCHANGED <<xml_geometry, geometry, source, _dmx_channels, dmx_channels,
                   virtual_channels, dmx_breaks, dmx_channels_count,
                   virtual_channels_count, written, notMode>>

\* the caller calls mode._process_dmx_channels()
Process ==
    /\ pc \in {"constructed", "processed"}
    /\ \E m \in {_process_dmx_channels(geometries, geometry, _dmx_channels)} :
          IF m.error
          THEN /\ pc' = "error"
               /\ UNCHANGED <<_dmx_channels, dmx_channels, virtual_channels, dmx_breaks,
                              dmx_channels_count, virtual_channels_count>>
          ELSE /\ pc' = "processed"
               /\ Assign(m)
    /\ UNCHANGED <<geometries, xml_geometry, geometry, source, written, notMode>>

EditNext == Construct \/ AppendChannel \/ RemoveChannel \/ EditGeometry \/ Process

SpecEdit == EditInit /\ [][EditNext]_vars

\* inputs on references: channels that name the tree Base, the target Head
\* or the reference R1, and collections with and without the tree Head
RefChannelElements ==
    [dmx_break : {1, Overwrite}, offset : {NoOffset, <<1>>},
     geometry : {"Base", "Head", "R1"}]

RefSources == UNION {[1..n -> RefChannelElements] : n \in 0..MaxChannels}

\* Base holds two references to Head, and no geometry is named Head
DanglingCollection(b1) ==
    <<Geometry("Base", <<GeometryReference("R1", "Head", b1),
                         GeometryReference("R2", "Head", NextAddress(b1))>>)>>

\* the references have no Break child or one
RefBreakLists == {b1 \in BreakLists : Len(b1) <= 1}

RefFixtures ==
    {ReferenceCollection(b1) : b1 \in RefBreakLists}
    \cup {DanglingCollection(b1) : b1 \in RefBreakLists}

RefsInit ==
    /\ RangeIdle
    /\ WriterIdle
    /\ AttrIdle
    /\ ValueIdle
    /\ LoadIdle
    /\ PackageIdle
    /\ WalkIdle
    /\ ExpandIdle
    /\ geometries \in RefFixtures
    /\ xml_geometry = "Base"
    /\ geometry = NoName
    /\ source \in RefSources
    /\ _dmx_channels = <<>>
    /\ dmx_channels = <<>>
    /\ virtual_channels = <<>>
    /\ dmx_breaks = <<>>
    /\ dmx_channels_count = 0
    /\ virtual_channels_count = 0
    /\ written = <<>>
    /\ pc = "new"

SpecRefs == RefsInit /\ [][Next]_vars

\* ------------------------------------------------- DMX ranges of functions
\* DmxValue(str_repr): the text is given as its "/"-separated integer
\* fields; fewer than two fields leave the defaults 0 and 1
DmxValue(str_repr) ==
    IF Len(str_repr) < 2 THEN [value |-> 0, byte_count |-> 1]
    ELSE [value |-> str_repr[1], byte_count |-> str_repr[2]]

\* ChannelFunction._read_xml: dmx_from, and dmx_to preset to dmx_from + 1
ChannelFunction_read_dmx(str_repr) ==
    [dmx_from |-> DmxValue(str_repr),
     dmx_to |-> [DmxValue(str_repr) EXCEPT !.value = @ + 1]]

\* sorted(..., key=dmx_from.value, reverse=True): positions of the functions
\* by descending dmx_from, equal keys in list order
RECURSIVE sorted_reverse(_, _)
sorted_reverse(functions, n) ==
    IF n = 0 THEN <<>>
    ELSE LET s == sorted_reverse(functions, n - 1)
             k == Cardinality({j \in 1..Len(s) :
                     functions[s[j]].dmx_from.value >= functions[n].dmx_from.value})
         IN SubSeq(s, 1, k) \o <<n>> \o SubSeq(s, k + 1, Len(s))

ByteCount_first(offset, dmx_from) == dmx_from.byte_count
\* byte_count of the range loop: the offset slots, or the function's own
ByteCount(offset, dmx_from) ==
    IF offset = NoOffset THEN dmx_from.byte_count ELSE Len(offset)

PreviousMinusOne_same(previous_function_dmx_from) == previous_function_dmx_from
\* deepcopy(previous_function_dmx_from) with value -= 1
PreviousMinusOne(previous_function_dmx_from) ==
    [previous_function_dmx_from EXCEPT !.value = @ - 1]

\* the loop body over the sorted functions; previous is <<>> (None) or
\* <<previous_function_dmx_from>>
RECURSIVE calculate_dmx_to(_, _, _, _)
calculate_dmx_to(functions, order, previous, offset) ==
    IF order = <<>> THEN functions
    ELSE LET i == Head(order)
             dmx_from == functions[i].dmx_from
             byte_count == ByteCount(offset, dmx_from)
         IN IF previous = <<>>
            THEN calculate_dmx_to(
                    [functions EXCEPT ![i].dmx_to =
                        [value |-> 2 ^ (byte_count * 8) - 1, byte_count |-> byte_count]],
                    Tail(order),
                    IF dmx_from.value = 0 THEN <<>> ELSE <<dmx_from>>,
                    offset)
            ELSE calculate_dmx_to(
                    [functions EXCEPT ![i].dmx_to = PreviousMinusOne(previous[1])],
                    Tail(order), <<dmx_from>>, offset)

\* DmxChannel._read_xml for one LogicalChannel: parse the functions, then
\* calculate dmx_to
DmxChannel_read_functions(offset, elements) ==
    LET functions == [i \in 1..Len(elements) |-> ChannelFunction_read_dmx(elements[i])]
    IN calculate_dmx_to(functions, sorted_reverse(functions, Len(functions)),
                        <<>>, offset)

\* ChannelSet._read_xml: dmx_from, and dmx_to preset to dmx_from + 1
ChannelSet_read_dmx(str_repr) ==
    [dmx_from |-> DmxValue(str_repr),
     dmx_to |-> [DmxValue(str_repr) EXCEPT !.value = @ + 1]]

SetCeiling_full(function_dmx_to, byte_count) ==
    [value |-> 2 ^ (byte_count * 8) - 1, byte_count |-> byte_count]
\* dmx_to of the set with the highest dmx_from: the value of the function's
\* dmx_to, with the byte count of the loop
SetCeiling(function_dmx_to, byte_count) ==
    [value |-> function_dmx_to.value, byte_count |-> byte_count]

\* the loop body over the sorted channel sets of one function; previous is
\* <<>> (None) or <<previous_set_dmx_from>>
RECURSIVE calculate_set_dmx_to(_, _, _, _, _)
calculate_set_dmx_to(sets, order, previous, offset, function_dmx_to) ==
    IF order = <<>> THEN sets
    ELSE LET i == Head(order)
             dmx_from == sets[i].dmx_from
             byte_count == ByteCount(offset, dmx_from)
         IN calculate_set_dmx_to(
                [sets EXCEPT ![i].dmx_to =
                    IF previous = <<>> THEN SetCeiling(function_dmx_to, byte_count)
                    ELSE PreviousMinusOne(previous[1])],
                Tail(order), <<dmx_from>>, offset, function_dmx_to)

\* DmxChannel._read_xml for the channel sets of one function, whose dmx_to
\* has just been calculated
DmxChannel_read_sets(offset, elements, function_dmx_to) ==
    LET sets == [i \in 1..Len(elements) |-> ChannelSet_read_dmx(elements[i])]
    IN calculate_set_dmx_to(sets, sorted_reverse(sets, Len(sets)), <<>>, offset,
                            function_dmx_to)

\* inputs: DMXFrom texts "v/b", and one text without a byte count
DmxFromValues == {0, 1, 128}

DmxFromTexts == {<<v, b>> : v \in DmxFromValues, b \in 1..MaxBytes} \cup {<<128>>}

FunctionElements == UNION {[1..n -> DmxFromTexts] : n \in 1..MaxFunctions}

ChannelOffsets == {[i \in 1..n |-> i] : n \in 0..MaxBytes}

RangeInit ==
    /\ ModeIdle
    /\ WriterIdle
    /\ AttrIdle
    /\ ValueIdle
    /\ LoadIdle
    /\ PackageIdle
    /\ WalkIdle
    /\ ExpandIdle
    /\ channel_offset \in ChannelOffsets
    /\ function_elements \in FunctionElements
    /\ channel_functions = <<>>
    /\ set_function = 1
    /\ set_elements = <<>>
    /\ channel_sets = <<>>
    /\ rpc = "new"

\* DmxChannel(xml_node=...)
ReadChannel ==
    /\ rpc = "new"
    /\ \E functions \in {DmxChannel_read_functions(channel_offset, function_elements)} :
          /\ channel_functions' = functions
          /\ channel_sets' = DmxChannel_read_sets(channel_offset, set_elements,
                                                  functions[set_function].dmx_to)
    /\ rpc' = "parsed"
    /\ UNCHANGED <<channel_offset, function_elements, set_function, set_elements,
                   notRange>>

RangeNext == ReadChannel

SpecRange == RangeInit /\ [][RangeNext]_vars

\* inputs with channel sets: functions at 0 and 128, and the DMXFrom texts
\* of the ChannelSet elements of one of them
MaxSets == 2

SetFunctionElements ==
    UNION {[1..n -> {<<0, 1>>, <<128, 1>>}] : n \in 1..MaxFunctions}

SetFromTexts == {<<v, 1>> : v \in {0, 100, 128, 200}} \cup {<<300, 2>>}

SetElements == UNION {[1..n -> SetFromTexts] : n \in 0..MaxSets}

SetsInit ==
    /\ ModeIdle
    /\ WriterIdle
    /\ AttrIdle
    /\ ValueIdle
    /\ LoadIdle
    /\ PackageIdle
    /\ WalkIdle
    /\ ExpandIdle
    /\ channel_offset \in ChannelOffsets
    /\ function_elements \in SetFunctionElements
    /\ channel_functions = <<>>
    /\ set_function \in 1..Len(function_elements)
    /\ set_elements \in SetElements
    /\ channel_sets = <<>>
    /\ rpc = "new"

SpecSets == SetsInit /\ [][RangeNext]_vars

\* ------------------------------------------- attributes: parse and write
\* xml_node.attrib is a function from the keys present to their texts

\* xml_node.attrib.get(key, default)
Get(attrib, key, default) == IF key \in DOMAIN attrib THEN attrib[key] ELSE default

\* a Python Optional: <<>> is None, <<x>> is x
None == <<>>

Some(x) == <<x>>

\* xml_node.attrib.get(key): the text, or None
GetOptional(attrib, key) == IF key \in DOMAIN attrib THEN Some(attrib[key]) ELSE None

\* a dict from a set of <<key, text>> pairs with distinct keys
Attrs(pairs) == [k \in {p[1] : p \in pairs} |-> (CHOOSE p \in pairs : p[1] = k)[2]]

\* float(text), for the texts in use
ParseFloat(text) == CASE text = "0" -> 0 [] text = "1" -> 1 [] text = "5" -> 5

\* f"{value:.6f}"
Format6(value) ==
    CASE value = 0 -> "0.000000" [] value = 1 -> "1.000000" [] value = 5 -> "5.000000"

\* str(float(value))
StrFloat(value) == CASE value = 0 -> "0.0" [] value = 1 -> "1.0" [] value = 5 -> "5.0"

\* str_repr.split("/") with the fields converted by get_int
Split(text) ==
    CASE text = "0/1" -> <<0, 1>> [] text = "5/1" -> <<5, 1>> [] text = "0/2" -> <<0, 2>>

_dmx_value_str(dmx_value) ==
    CASE dmx_value = [value |-> 0, byte_count |-> 1] -> "0/1"
      [] dmx_value = [value |-> 5, byte_count |-> 1] -> "5/1"
      [] dmx_value = [value |-> 0, byte_count |-> 2] -> "0/2"

\* Enum.__init__: a value that is not permitted becomes the default
Enum(permitted, default, value) ==
    IF value # None /\ value[1] \in permitted THEN value[1] ELSE default

Snap(value) == Enum({"Yes", "No", "On", "Off"}, "No", value)

Master(value) == Enum({"None", "Grand", "Group"}, "None", value)

DmxInvert(value) == Enum({"Yes", "No"}, "No", value)

\* PhysicalValue(str_repr).value
PhysicalValue(str_repr) == IF str_repr = None THEN None ELSE Some(ParseFloat(str_repr[1]))

LogicalChannel_read_xml(attrib) ==
    [snap |-> Snap(GetOptional(attrib, "Snap")),
     master |-> Master(GetOptional(attrib, "Master")),
     mib_fade |-> ParseFloat(Get(attrib, "MibFade", "0")),
     dmx_change_time_limit |-> ParseFloat(Get(attrib, "DMXChangeTimeLimit", "0"))]

\* every value test of the method passes for any parsed object
LogicalChannel_to_xml(self) ==
    Attrs({<<"Snap", self.snap>>,
           <<"Master", self.master>>,
           <<"MibFade", Format6(self.mib_fade)>>,
           <<"DMXChangeTimeLimit", Format6(self.dmx_change_time_limit)>>})

\* ChannelFunction._read_xml, then the naming loop of LogicalChannel._read_xml
\* for the first function of the channel
ChannelFunction_read_xml(attrib) ==
    LET physical_from == PhysicalValue(Some(Get(attrib, "PhysicalFrom", "0")))
        physical_to == PhysicalValue(Some(Get(attrib, "PhysicalTo", "1")))
        attribute == Get(attrib, "Attribute", "NoFeature")
    IN [name |-> IF "Name" \in DOMAIN attrib THEN Some(attrib["Name"])
                 ELSE Some("NoFeature 1"),
        attribute |-> attribute,
        dmx_from |-> DmxValue(Split(Get(attrib, "DMXFrom", "0/1"))),
        default |-> DmxValue(Split(Get(attrib, "Default", "0/1"))),
        physical_from |-> physical_from,
        physical_to |-> physical_to,
        real_fade |-> ParseFloat(Get(attrib, "RealFade", "0")),
        dmx_invert |-> DmxInvert(GetOptional(attrib, "DMXInvert")),
        mode_from |-> DmxValue(Split(Get(attrib, "ModeFrom", "0/1"))),
        mode_to |-> DmxValue(Split(Get(attrib, "ModeTo", "0/1"))),
        min_val |-> IF "Min" \in DOMAIN attrib THEN Some(ParseFloat(attrib["Min"]))
                    ELSE physical_from,
        max_val |-> IF "Max" \in DOMAIN attrib THEN Some(ParseFloat(attrib["Max"]))
                    ELSE physical_to,
        custom_name |-> GetOptional(attrib, "CustomName"),
        _attr_keys |-> DOMAIN attrib]

\* the test of to_xml for PhysicalFrom and PhysicalTo, shared by
\* ChannelFunction and ChannelSet
PhysicalEmitted(self, key, physical) ==
    /\ physical # None
    /\ (key \in self._attr_keys \/ (self._attr_keys = {} /\ physical # None))

ChannelFunction_to_xml(self) ==
    LET keys == self._attr_keys
        IsDefault(dmx_value) == dmx_value.value = 0 /\ dmx_value.byte_count = 1
    IN Attrs(
        (IF self.name # None \/ "Name" \in keys
         THEN {<<"Name", IF self.name # None THEN self.name[1] ELSE "">>} ELSE {})
        \cup {<<"Attribute", self.attribute>>}
        \cup {<<"DMXFrom", _dmx_value_str(self.dmx_from)>>}
        \cup (IF "Default" \in keys \/ ~IsDefault(self.default)
              THEN {<<"Default", _dmx_value_str(self.default)>>} ELSE {})
        \cup (IF PhysicalEmitted(self, "PhysicalFrom", self.physical_from)
              THEN {<<"PhysicalFrom", Format6(self.physical_from[1])>>} ELSE {})
        \cup (IF PhysicalEmitted(self, "PhysicalTo", self.physical_to)
              THEN {<<"PhysicalTo", Format6(self.physical_to[1])>>} ELSE {})
        \cup (IF "RealFade" \in keys \/ self.real_fade # 0
              THEN {<<"RealFade", Format6(self.real_fade)>>} ELSE {})
        \cup (IF "DMXInvert" \in keys \/ self.dmx_invert # "No"
              THEN {<<"DMXInvert", self.dmx_invert>>} ELSE {})
        \cup (IF "ModeFrom" \in keys \/ ~IsDefault(self.mode_from)
              THEN {<<"ModeFrom", _dmx_value_str(self.mode_from)>>} ELSE {})
        \cup (IF "ModeTo" \in keys \/ ~IsDefault(self.mode_to)
              THEN {<<"ModeTo", _dmx_value_str(self.mode_to)>>} ELSE {})
        \cup (IF self.min_val # None /\ ("Min" \in keys \/ self.min_val[1] # 0)
              THEN {<<"Min", Format6(self.min_val[1])>>} ELSE {})
        \cup (IF self.max_val # None /\ ("Max" \in keys \/ self.max_val[1] # 0)
              THEN {<<"Max", Format6(self.max_val[1])>>} ELSE {})
        \cup (IF self.custom_name # None \/ "CustomName" \in keys
              THEN {<<"CustomName", IF self.custom_name # None
                                    THEN self.custom_name[1] ELSE "">>} ELSE {}))

dmx_to_physical(dmx_value, dmx_from, dmx_to, physical_from, physical_to) ==
    IF dmx_to - dmx_from = 0 THEN physical_from
    ELSE IF (dmx_from - dmx_to) + physical_from = 0
         THEN (dmx_from - dmx_from) * (physical_to - physical_from)
         ELSE ((dmx_value - dmx_from) * (physical_to - physical_from))
                  \div (dmx_to - dmx_from) + physical_from

\* int(text) and str(int), for the texts in use
ParseInt(text) == CASE text = "0" -> 0 [] text = "1" -> 1

StrInt(value) == CASE value = 0 -> "0" [] value = 1 -> "1"

ChannelSet_read_xml(attrib) ==
    [name |-> GetOptional(attrib, "Name"),
     dmx_from |-> DmxValue(Split(Get(attrib, "DMXFrom", "0/1"))),
     physical_from |-> PhysicalValue(GetOptional(attrib, "PhysicalFrom")),
     physical_to |-> PhysicalValue(GetOptional(attrib, "PhysicalTo")),
     wheel_slot_index |-> IF ParseInt(Get(attrib, "WheelSlotIndex", "0")) > 0
                          THEN ParseInt(Get(attrib, "WheelSlotIndex", "0")) ELSE 0,
     _attr_keys |-> DOMAIN attrib]

\* DmxChannel._read_xml: a physical value the set does not give is taken
\* from the enclosing function; function_dmx_to and set_dmx_to are the
\* calculated ends of the function and of the set
ChannelSet_fill_physical(channel_set, channel_function, function_dmx_to, set_dmx_to) ==
    [channel_set EXCEPT
        !.physical_from = IF @ = None
                          THEN Some(dmx_to_physical(channel_set.dmx_from.value,
                                        channel_function.dmx_from.value, function_dmx_to,
                                        channel_function.physical_from[1],
                                        channel_function.physical_to[1]))
                          ELSE @,
        !.physical_to = IF @ = None
                        THEN Some(dmx_to_physical(set_dmx_to,
                                      channel_function.dmx_from.value, function_dmx_to,
                                      channel_function.physical_from[1],
                                      channel_function.physical_to[1]))
                        ELSE @]

ChannelSet_to_xml(self) ==
    Attrs(
        (IF self.name # None THEN {<<"Name", self.name[1]>>} ELSE {})
        \cup {<<"DMXFrom", _dmx_value_str(self.dmx_from)>>}
        \cup (IF PhysicalEmitted(self, "PhysicalFrom", self.physical_from)
              THEN {<<"PhysicalFrom", StrFloat(self.physical_from[1])>>} ELSE {})
        \cup (IF PhysicalEmitted(self, "PhysicalTo", self.physical_to)
              THEN {<<"PhysicalTo", StrFloat(self.physical_to[1])>>} ELSE {})
        \cup {<<"WheelSlotIndex", StrInt(self.wheel_slot_index)>>})

\* inputs: per tag, the texts an attribute may have; Absent leaves it out
Absent == "<absent>"

LogicalChannelElements ==
    [Snap : {Absent, "No", "Yes"}, Master : {Absent, "None", "Grand"},
     MibFade : {Absent, "0", "1"}, DMXChangeTimeLimit : {Absent, "0", "1"}]

ChannelFunctionElements ==
    [Name : {Absent, "a"}, Default : {Absent, "0/1", "5/1"},
     PhysicalFrom : {Absent, "0", "5"}, PhysicalTo : {Absent, "1", "5"},
     RealFade : {Absent, "0", "5"}, DMXInvert : {Absent, "No", "Yes"},
     ModeFrom : {Absent, "0/1"}, ModeTo : {Absent, "5/1"},
     Min : {Absent, "0", "5"}, Max : {Absent, "0", "5"},
     CustomName : {Absent, ""}]

ChannelSetElements ==
    [Name : {Absent, "a"}, PhysicalFrom : {Absent, "0", "5"},
     PhysicalTo : {Absent, "1", "5"}, WheelSlotIndex : {Absent, "0", "1"}]

\* the attrib dict of an element
Attrib(element) == [k \in {x \in DOMAIN element : element[x] # Absent} |-> element[k]]

ElementsOf(tag) ==
    CASE tag = "LogicalChannel" -> {Attrib(e) : e \in LogicalChannelElements}
      [] tag = "ChannelFunction" -> {Attrib(e) : e \in ChannelFunctionElements}
      [] tag = "ChannelSet" -> {Attrib(e) : e \in ChannelSetElements}

\* the function a ChannelSet of the input lies in: no attributes, one byte
EnclosingFunction == ChannelFunction_read_xml(<<>>)

\* the fields a caller assigns, and the value assigned
ApiFields(tag) ==
    CASE tag = "LogicalChannel" -> {}
      [] tag = "ChannelFunction" -> {"physical_from", "physical_to", "real_fade"}
      [] tag = "ChannelSet" -> {"physical_from", "physical_to"}

ApiValue(field) == IF field = "real_fade" THEN 5 ELSE Some(5)

WriterInit ==
    /\ ModeIdle
    /\ RangeIdle
    /\ AttrIdle
    /\ ValueIdle
    /\ LoadIdle
    /\ PackageIdle
    /\ WalkIdle
    /\ ExpandIdle
    /\ element_tag \in {"LogicalChannel", "ChannelFunction", "ChannelSet"}
    /\ element_attrib \in ElementsOf(element_tag)
    /\ node = <<>>
    /\ api_set = NoName
    /\ output_attrib = <<>>
    /\ wpc = "new"

\* the element is parsed as part of a DMXChannel of a loaded description
ReadElement ==
    /\ wpc = "new"
    /\ node' = CASE element_tag = "LogicalChannel" -> LogicalChannel_read_xml(element_attrib)
                 [] element_tag = "ChannelFunction" -> ChannelFunction_read_xml(element_attrib)
                 [] element_tag = "ChannelSet" ->
                      ChannelSet_fill_physical(ChannelSet_read_xml(element_attrib),
                                               EnclosingFunction, 255, 255)
    /\ wpc' = "parsed"
    /\ UNCHANGED <<element_tag, element_attrib, api_set, output_attrib, notWriter>>

\* a caller assigns a field of the parsed object
ApiSet ==
    /\ wpc = "parsed"
    /\ \E field \in ApiFields(element_tag) :
          /\ node' = [node EXCEPT ![field] = ApiValue(field)]
          /\ api_set' = field
    /\ wpc' = "mutated"
    /\ UNCHANGED <<element_tag, element_attrib, output_attrib, notWriter>>

\* to_xml of the object
WriteElement ==
    /\ wpc \in {"parsed", "mutated"}
    /\ output_attrib' = CASE element_tag = "LogicalChannel" -> LogicalChannel_to_xml(node)
                          [] element_tag = "ChannelFunction" -> ChannelFunction_to_xml(node)
                          [] element_tag = "ChannelSet" -> ChannelSet_to_xml(node)
    /\ wpc' = "written"
    /\ UNCHANGED <<element_tag, element_attrib, node, api_set, notWriter>>

WriterNext == ReadElement \/ ApiSet \/ WriteElement

SpecWriter == WriterInit /\ [][WriterNext]_vars

\* ------------------------------------------------ attribute regeneration
\* A text is the sequence of its characters, <<>> both the empty text and
\* None (the code tests texts by truth value); a placeholder "(n)", "(m)",
\* "(N)" or "(M)" of the table is one element of the sequence.

\* match.groupdict() of a pattern without groups
NoGroups == [key \in {} |-> <<>>]

IsDigit(c) == c \in {"2", "3"}

\* the placeholders _build_templates_from_data turns into named groups
Placeholders == {"(n)", "(m)"}

\* the group a placeholder names; f"({key})" and f"({key.upper()})"
GroupOf(token) ==
    CASE token \in {"(n)", "(N)"} -> "n"
      [] token \in {"(m)", "(M)"} -> "m"
      [] OTHER -> ""

\* the leading characters of text that \d matches
RECURSIVE DigitRun(_)
DigitRun(text) ==
    IF text # <<>> /\ IsDigit(Head(text)) THEN 1 + DigitRun(Tail(text)) ELSE 0

\* pattern.match(attr_name) for the pattern "^" + name + "$" with every
\* placeholder replaced by (?P<key>\d+): <<>> for no match, else <<groups>>.
\* "$" matches at the end and before a line feed that ends the text; \d+ is
\* greedy and gives digits back, re_match_digits tries k digits, then fewer
RECURSIVE re_match(_, _, _)
RECURSIVE re_match_digits(_, _, _, _)
re_match(pattern, text, groups) ==
    IF pattern = <<>>
    THEN IF text = <<>> \/ text = <<"\n">> THEN <<groups>> ELSE <<>>
    ELSE IF Head(pattern) \in Placeholders
         THEN re_match_digits(pattern, text, groups, DigitRun(text))
         ELSE IF text # <<>> /\ Head(text) = Head(pattern)
              THEN re_match(Tail(pattern), Tail(text), groups)
              ELSE <<>>

re_match_digits(pattern, text, groups, k) ==
    IF k = 0 THEN <<>>
    ELSE LET m == re_match(Tail(pattern), SubSeq(text, k + 1, Len(text)),
                           [key \in DOMAIN groups \cup {GroupOf(Head(pattern))} |->
                               IF key = GroupOf(Head(pattern)) THEN SubSeq(text, 1, k)
                               ELSE groups[key]])
         IN IF m # <<>> THEN m ELSE re_match_digits(pattern, text, groups, k - 1)

_apply_placeholders(value, groups) ==
    Flatten([k \in 1..Len(value) |->
                IF GroupOf(value[k]) \in DOMAIN groups THEN groups[GroupOf(value[k])]
                ELSE <<value[k]>>])

\* a row of the table
Template(name, pretty, activation_group, feature, main_attribute) ==
    [name |-> name, pretty |-> pretty, activation_group |-> activation_group,
     feature |-> feature, main_attribute |-> main_attribute]

IsWildcard(template) ==
    \E k \in 1..Len(template.name) : template.name[k] \in Placeholders

\* exact: the rows without a placeholder, a later row replacing an earlier
\* one of the same name; wildcard: the rows with one, in table order
_build_templates_from_data(data) ==
    [exact |-> SelectSeq(data, LAMBDA t : t.name # <<>> /\ ~IsWildcard(t)),
     wildcard |-> SelectSeq(data, LAMBDA t : t.name # <<>> /\ IsWildcard(t))]

\* templates["exact"][attr_name]: the last row of that name
ExactTemplate(exact, attr_name) ==
    Last(SelectSeq(exact, LAMBDA t : t.name = attr_name))

\* the loop over the wildcard rows: the first row whose pattern matches
RECURSIVE MatchWildcard(_, _)
MatchWildcard(wildcard, attr_name) ==
    IF wildcard = <<>> THEN [template |-> None, groups |-> NoGroups]
    ELSE IF re_match(Head(wildcard).name, attr_name, NoGroups) # <<>>
         THEN [template |-> Some(Head(wildcard)),
               groups |-> re_match(Head(wildcard).name, attr_name, NoGroups)[1]]
         ELSE MatchWildcard(Tail(wildcard), attr_name)

_match_attribute_template(attr_name, tmpl) ==
    IF \E k \in 1..Len(tmpl.exact) : tmpl.exact[k].name = attr_name
    THEN [template |-> Some(ExactTemplate(tmpl.exact, attr_name)), groups |-> NoGroups]
    ELSE MatchWildcard(tmpl.wildcard, attr_name)

\* pygdtf.Attribute: name, pretty and the three links; origin records which
\* branch of regenerate_attribute_definitions made the object
Attribute(name, pretty, activation_group, feature, main_attribute, origin) ==
    [name |-> name, pretty |-> pretty, activation_group |-> activation_group,
     feature |-> feature, main_attribute |-> main_attribute, origin |-> origin]

_build_attribute_from_template(attr_name, template, groups) ==
    Attribute(attr_name,
              _apply_placeholders(template.pretty, groups),
              _apply_placeholders(template.activation_group, groups),
              _apply_placeholders(template.feature, groups),
              _apply_placeholders(template.main_attribute, groups),
              "template")

_build_fallback_attribute(name) ==
    Attribute(name, name, None, <<"Control", ".", "Control">>, None, "fallback")

\* _collect_attribute_names: the links in document order, without the empty
\* ones and without repetitions
RECURSIVE _collect_attribute_names(_, _)
_collect_attribute_names(links, names) ==
    IF links = <<>> THEN names
    ELSE _collect_attribute_names(
            Tail(links),
            IF Head(links) # <<>> /\ Head(links) \notin Range(names)
            THEN Append(names, Head(links)) ELSE names)

\* _collect_custom_attributes: name -> authored attribute, the last one of
\* a name; the dict is kept as the list of the authored attributes
CustomAttribute(authored, name) ==
    Last(SelectSeq(authored, LAMBDA attr : attr.name = name))

InCustomMap(authored, name) ==
    name # <<>> /\ \E k \in 1..Len(authored) : authored[k].name = name

\* the main attribute a name brings in: that of its template, or none
MainAttributeOf(match) ==
    IF match.template # None
    THEN _apply_placeholders(match.template[1].main_attribute, match.groups)
    ELSE None

\* the main attribute the head of the queue adds to it: <<>> or <<main_attr>>
NewDependency(current, seen, tmpl) ==
    IF MainAttributeOf(_match_attribute_template(current, tmpl)) \notin seen \cup {None}
    THEN <<MainAttributeOf(_match_attribute_template(current, tmpl))>>
    ELSE <<>>

\* the loop "while queue" of _expand_attribute_dependencies
RECURSIVE ExpandQueue(_, _, _, _)
ExpandQueue(queue, seen, ordered, tmpl) ==
    IF queue = <<>> THEN ordered
    ELSE ExpandQueue(Tail(queue) \o NewDependency(Head(queue), seen, tmpl),
                     seen \cup Range(NewDependency(Head(queue), seen, tmpl)),
                     Append(ordered, Head(queue)), tmpl)

_expand_attribute_dependencies(names, tmpl) ==
    ExpandQueue(names, Range(names), <<>>, tmpl)

\* the branch of the loop of regenerate_attribute_definitions for one name
ChooseAttribute_custom_first(name, match, authored) ==
    IF InCustomMap(authored, name) THEN CustomAttribute(authored, name)
    ELSE IF match.template = None THEN _build_fallback_attribute(name)
    ELSE _build_attribute_from_template(name, match.template[1], match.groups)
ChooseAttribute(name, match, authored) ==
    IF match.template = None
    THEN IF InCustomMap(authored, name) THEN CustomAttribute(authored, name)
         ELSE _build_fallback_attribute(name)
    ELSE _build_attribute_from_template(name, match.template[1], match.groups)

\* feature_link.split(".", 1): <<group, feature>>, the link twice without a dot
SplitFeature(link) ==
    IF \E k \in 1..Len(link) : link[k] = "."
    THEN LET dot == CHOOSE k \in 1..Len(link) :
                        link[k] = "." /\ \A j \in 1..(k - 1) : link[j] # "."
         IN <<SubSeq(link, 1, dot - 1), SubSeq(link, dot + 1, Len(link))>>
    ELSE <<link, link>>

\* the attributes, in the order of the names
RegeneratedAttributes(names, tmpl, authored) ==
    [k \in 1..Len(names) |->
        ChooseAttribute(names[k], _match_attribute_template(names[k], tmpl), authored)]

\* what the loop has collected when it ends.  activation_groups and
\* feature_groups are kept as the sets used_activation_groups and
\* features_by_group (as <<group, feature>> pairs), from which the returned
\* objects are listed in table order
CollectResult(attrs) ==
    [attributes |-> attrs,
     missing_attributes |->
        [k \in 1..Len(SelectSeq(attrs, LAMBDA attr : attr.origin = "fallback")) |->
            SelectSeq(attrs, LAMBDA attr : attr.origin = "fallback")[k].name],
     activation_groups |->
        {attrs[k].activation_group : k \in 1..Len(attrs)} \ {None},
     feature_groups |->
        {SplitFeature(attrs[k].feature) :
            k \in {j \in 1..Len(attrs) : attrs[j].feature # None}}]

\* names: what _collect_attribute_names returns
RegenerateFor(names, tmpl, authored) ==
    CollectResult(RegeneratedAttributes(_expand_attribute_dependencies(names, tmpl),
                                        tmpl, authored))

regenerate_attribute_definitions(data, links, authored) ==
    RegenerateFor(_collect_attribute_names(links, <<>>),
                  _build_templates_from_data(data), authored)

\* inputs: the names the channels link to (<<>> a channel without a link)
MaxNames == 2

MaxTemplates == 2

AttributeNames ==
    {<<>>, <<"C">>, <<"D">>, <<"C", "2">>, <<"C", "2", "3">>, <<"C", "2", "\n">>,
     <<"C", "C">>, <<"2", "C">>}

AttributeLinks == UNION {[1..n -> AttributeNames] : n \in 0..MaxNames}

\* rows of the table: every placeholder of a row is in its name, once
AnnexRows ==
    {Template(<<"C", "(n)">>, <<"P", "(n)">>, <<"G", "(n)">>, <<"F", ".", "(N)">>, <<"C">>),
     Template(<<"C", "(n)", "(m)">>, <<"(n)", "-", "(m)">>, None, <<"F">>, None),
     Template(<<"C">>, <<"P">>, <<"G">>, <<"F", ".", "F">>, None),
     Template(<<"(n)", "C">>, <<"Q", "(n)">>, None, <<"F", ".", "Q">>, <<"C", "C">>)}

AnnexTables == UNION {[1..n -> AnnexRows] : n \in 0..MaxTemplates}

\* the AttributeDefinitions of the file
AuthoredAttributes ==
    {<<>>,
     <<Attribute(<<"C", "C">>, <<"c">>, None, <<"X", ".", "Y">>, <<"D">>, "authored")>>,
     <<Attribute(<<"C", "2">>, <<"c">>, <<"A">>, <<"X">>, None, "authored"),
       Attribute(<<"C", "C">>, <<"c">>, None, None, None, "authored")>>}

AttrInit ==
    /\ ModeIdle
    /\ RangeIdle
    /\ WriterIdle
    /\ ValueIdle
    /\ LoadIdle
    /\ PackageIdle
    /\ WalkIdle
    /\ ExpandIdle
    /\ templates \in AnnexTables
    /\ attr_names \in AttributeLinks
    /\ attributes \in AuthoredAttributes
    /\ regenerated = <<>>
    /\ apc = "new"

\* regenerate_attribute_definitions(gdtf_profile)
Regenerate ==
    /\ apc = "new"
    /\ regenerated' = regenerate_attribute_definitions(templates, attr_names, attributes)
    /\ apc' = "done"
    /\ UNCHANGED <<templates, attr_names, attributes, notAttr>>

AttrNext == Regenerate

SpecAttr == AttrInit /\ [][AttrNext]_vars

\* --------------------------------------------------------- value functions
\* DmxValue.get_value(fine): (value >> 8) & 0xFF and value & 0xFF
DmxValue_get_value(self, fine) ==
    IF self.byte_count = 1 THEN self.value
    ELSE IF ~fine THEN (self.value \div 256) % 256
    ELSE self.value % 256

\* inputs: the value whose bytes are given, the most significant one first
RECURSIVE FromBytes(_)
FromBytes(bytes) ==
    IF bytes = <<>> THEN 0
    ELSE Head(bytes) * 256 ^ (Len(bytes) - 1) + FromBytes(Tail(bytes))

ByteTexts == UNION {[1..n -> 1..4] : n \in 1..4}

GetValueCalls ==
    {[function |-> "get_value",
      self |-> [value |-> FromBytes(bytes), byte_count |-> Len(bytes)],
      bytes |-> bytes, fine |-> fine] : bytes \in ByteTexts, fine \in BOOLEAN}

\* the ends of a DMX range and of a physical range; dmx_value is an end of
\* the DMX range, where the quotient of dmx_to_physical is exact
DmxEnds == {0, 1, 128, 255}

PhysicalEnds == {-255, -1, 0, 1, 127, 255}

PhysicalCalls ==
    {[function |-> "dmx_to_physical", dmx_value |-> IF at_from THEN ends[1] ELSE ends[2],
      dmx_from |-> ends[1], dmx_to |-> ends[2],
      physical_from |-> physical[1], physical_to |-> physical[2]] :
        ends \in DmxEnds \X DmxEnds, physical \in PhysicalEnds \X PhysicalEnds,
        at_from \in BOOLEAN}

ValueInit ==
    /\ ModeIdle
    /\ RangeIdle
    /\ WriterIdle
    /\ AttrIdle
    /\ LoadIdle
    /\ PackageIdle
    /\ WalkIdle
    /\ ExpandIdle
    /\ call \in GetValueCalls \cup PhysicalCalls
    /\ result = <<>>
    /\ vpc = "new"

\* dmx_value.get_value(fine=...)
GetValue ==
    /\ vpc = "new"
    /\ call.function = "get_value"
    /\ result' = DmxValue_get_value(call.self, call.fine)
    /\ vpc' = "returned"
    /\ UNCHANGED <<call, notValue>>

\* dmx_to_physical(dmx_value, dmx_from=..., dmx_to=..., physical_from=...,
\* physical_to=...)
Interpolate ==
    /\ vpc = "new"
    /\ call.function = "dmx_to_physical"
    /\ result' = dmx_to_physical(call.dmx_value, call.dmx_from, call.dmx_to,
                                 call.physical_from, call.physical_to)
    /\ vpc' = "returned"
    /\ UNCHANGED <<call, notValue>>

ValueNext == GetValue \/ Interpolate

SpecValue == ValueInit /\ [][ValueNext]_vars

\* ------------------------------------------------------------ loading
\* A description is a sequence of tokens: start and end tags of GDTF and
\* FixtureType (the latter with Name="T"), character data and a NUL byte.
StartTags == {"<GDTF>", "<FixtureType>"}

EndTags == {"</GDTF>", "</FixtureType>"}

EndTagOf(tag) == IF tag = "<GDTF>" THEN "</GDTF>" ELSE "</FixtureType>"

Tokens == StartTags \cup EndTags \cup {"x", "NUL"}

\* ElementTree.fromstring / ElementTree.parse(...).getroot(): None for a
\* ParseError, else the root with what root.find("FixtureType") gives
RECURSIVE ParseTokens(_, _, _, _)
ParseTokens(text, stack, closed, found) ==
    IF text = <<>>
    THEN IF closed THEN Some([FixtureType |-> found]) ELSE None
    ELSE LET token == Head(text) IN
         CASE token = "NUL" -> None
           [] token = "x" ->
                IF stack = <<>> THEN None
                ELSE ParseTokens(Tail(text), stack, closed, found)
           [] token \in StartTags ->
                IF closed THEN None
                ELSE ParseTokens(Tail(text), Append(stack, token), closed,
                                 found \/ (Len(stack) = 1 /\ token = "<FixtureType>"))
           [] token \in EndTags ->
                IF stack = <<>> \/ EndTagOf(Last(stack)) # token THEN None
                ELSE ParseTokens(Tail(text), SubSeq(stack, 1, Len(stack) - 1),
                                 Len(stack) = 1, found)

fromstring(text) == ParseTokens(text, <<>>, FALSE, FALSE)

BrokenXmlName == "Original File Had Broken XML"

\* the FixtureType object: the exception its construction raised, or the name
\* _read_xml set (NoName when no FixtureType element was found)
Raised(exception) == [raised |-> exception, name |-> NoName]

Constructed(name) == [raised |-> NoName, name |-> name]

\* _find_root(pkg): the root of description.xml, or of the replacement
\* document when it cannot be parsed
_find_root(description) ==
    IF description = <<>> THEN Raised("IndexError")
    ELSE LET description_str == IF Last(description) = "NUL"
                                THEN SubSeq(description, 1, Len(description) - 1)
                                ELSE description
             root == fromstring(description_str)
         IN  IF root = None THEN Constructed(BrokenXmlName)
             ELSE Constructed(IF root[1].FixtureType THEN "T" ELSE NoName)

\* FixtureType.__init__(path=..., dsc_file=...)
FixtureType_init(self) ==
    IF self.path
    THEN _find_root(self.description)
    ELSE LET root == fromstring(self.description) IN
         IF root = None THEN Raised("ParseError")
         ELSE Constructed(IF root[1].FixtureType THEN "T" ELSE NoName)

MaxTokens == 4

Descriptions == UNION {[1..n -> Tokens] : n \in 0..MaxTokens}

\* path: TRUE for a GDTF archive (path=...), FALSE for a bare description
\* (dsc_file=...)
Files == {[path |-> path, description |-> description] :
            path \in BOOLEAN, description \in Descriptions}

LoadInit ==
    /\ ModeIdle
    /\ RangeIdle
    /\ WriterIdle
    /\ AttrIdle
    /\ ValueIdle
    /\ PackageIdle
    /\ WalkIdle
    /\ ExpandIdle
    /\ file \in Files
    /\ fixture = <<>>
    /\ lpc = "new"

\* pygdtf.FixtureType(path) or pygdtf.FixtureType(dsc_file=...)
Load ==
    /\ lpc = "new"
    /\ fixture' = FixtureType_init(file)
    /\ lpc' = "loaded"
    /\ UNCHANGED <<file, notLoad>>

LoadNext == Load

SpecLoad == LoadInit /\ [][LoadNext]_vars

\* ------------------------------------------------------- package writer
\* FixtureType.to_xml, as far as the writer's callers observe it: the GDTF
\* root with its DataVersion and the Name of a ChannelSet element
FixtureType_to_xml(self) ==
    [DataVersion |-> self.data_version, Name |-> self.channel_set_name]

\* FixtureTypeWriter.__init__: data_version and xml_root are taken here
FixtureTypeWriter_init(self) ==
    [data_version |-> self.data_version,
     xml_root |-> [FixtureType_to_xml(self) EXCEPT !.DataVersion = self.data_version]]

\* the first two statements of write_gdtf
SetDataVersion(self, data_version) ==
    LET version == IF data_version # None THEN data_version[1] ELSE self.data_version IN
    [data_version |-> version,
     xml_root |-> [self.xml_root EXCEPT !.DataVersion = version]]

MaxWrites == 2

DeclaredVersions == {"1.0", "1.2"}

DataVersions == DeclaredVersions \cup {"9.9"}

ChannelSetNames == {"Open", "Modified"}

PackageInit ==
    /\ ModeIdle
    /\ RangeIdle
    /\ WriterIdle
    /\ AttrIdle
    /\ ValueIdle
    /\ LoadIdle
    /\ WalkIdle
    /\ ExpandIdle
    /\ fixture_type \in [data_version : DeclaredVersions, channel_set_name : {"Open"}]
    /\ writer = None
    /\ packages = <<>>

\* channel_set.name = name, by the caller
SetName(name) ==
    /\ name # fixture_type.channel_set_name
    /\ fixture_type' = [fixture_type EXCEPT !.channel_set_name = name]
    /\ UNCHANGED <<writer, packages, notPackage>>

\* writer = FixtureTypeWriter(fixture_type)
NewWriter ==
    /\ writer = None
    /\ writer' = Some(FixtureTypeWriter_init(fixture_type))
    /\ UNCHANGED <<fixture_type, packages, notPackage>>

\* writer.write_gdtf(path, data_version=...): the written description is
\* recorded with the argument and the model as it is at the call
WriteGdtf(data_version) ==
    /\ writer # None
    /\ Len(packages) < MaxWrites
    /\ \E self \in {SetDataVersion(writer[1], data_version)} :
          /\ writer' = Some(self)
          /\ packages' = Append(packages, [data_version |-> data_version,
                                           fixture_type |-> fixture_type,
                                           description |-> self.xml_root])
    /\ UNCHANGED <<fixture_type, notPackage>>

PackageNext ==
    \/ \E name \in ChannelSetNames : SetName(name)
    \/ NewWriter
    \/ \E data_version \in {None} \cup {Some(v) : v \in DataVersions} :
          WriteGdtf(data_version)

SpecPackage == PackageInit /\ [][PackageNext]_vars

\* ------------------------------------------------- walks over references
\* _get_geometries_for_geometry (walk "used") and get_beam_geometries (walk
\* "beam") are recursive; a frame is a call that has not returned, with the
\* calls it still has to make

GeometryBeam(name) == [Geometry(name, <<>>) EXCEPT !.kind = "GeometryBeam"]

\* the calls the body makes for geometry g, in order: the target of a
\* reference that names one, then the children
SubCalls(coll, g) ==
    (IF g.kind = "GeometryReference" /\ g.geometry # NoName
     THEN <<get_geometry_by_name(coll, g.geometry)>> ELSE <<>>)
    \o (IF g.kind # "GeometryReference" THEN g.geometries ELSE <<>>)

\* what the body appends for geometry g
Collects(walk, g) ==
    IF walk = "used" THEN <<g.kind>>
    ELSE IF g.kind = "GeometryBeam" THEN <<g.name>> ELSE <<>>

\* the depth of calls at which the interpreter raises RecursionError
RecursionLimit == 8

\* the first call, with argument g: "return []" for None; else the body
\* runs up to its first call
Enter(g) ==
    IF g.kind = "None"
    THEN /\ geometries_list' = <<>>
         /\ kpc' = IF frames = <<>> THEN "done" ELSE "walking"
         /\ UNCHANGED frames
    ELSE /\ geometries_list' = geometries_list \o Collects(profile.walk, g)
         /\ frames' = Append(frames, [geometry |-> g,
                                      calls |-> SubCalls(profile.geometries, g)])
         /\ kpc' = "walking"

\* the caller's call on the root geometry of the mode
WalkBegin ==
    /\ kpc = "new"
    /\ Enter(get_geometry_by_name(profile.geometries, profile.mode_geometry))
    /\ UNCHANGED <<profile, notWalk>>

\* the innermost call makes its next call
WalkDescend ==
    /\ kpc = "walking"
    /\ frames # <<>>
    /\ Last(frames).calls # <<>>
    /\ LET caller == [Last(frames) EXCEPT !.calls = Tail(@)]
           callee == Head(Last(frames).calls)
           rest == SubSeq(frames, 1, Len(frames) - 1)
       IN IF Len(frames) >= RecursionLimit
          THEN /\ kpc' = "RecursionError"
               /\ UNCHANGED <<frames, geometries_list>>
          ELSE IF callee.kind = "None"
          THEN /\ geometries_list' = <<>>
               /\ frames' = Append(rest, caller)
               /\ UNCHANGED kpc
          ELSE /\ geometries_list' = geometries_list \o Collects(profile.walk, callee)
               /\ frames' = Append(Append(rest, caller),
                                   [geometry |-> callee,
                                    calls |-> SubCalls(profile.geometries, callee)])
               /\ UNCHANGED kpc
    /\ UNCHANGED <<profile, notWalk>>

\* the innermost call has made its calls and returns its list
WalkReturn ==
    /\ kpc = "walking"
    /\ frames # <<>>
    /\ Last(frames).calls = <<>>
    /\ frames' = SubSeq(frames, 1, Len(frames) - 1)
    /\ kpc' = IF Len(frames) = 1 THEN "done" ELSE "walking"
    /\ UNCHANGED <<geometries_list, profile, notWalk>>

\* inputs: the trees Base and Head; Base holds a beam and the reference R1,
\* Head a geometry, a beam or the reference R2
WalkTargets == {"Base", "Head", "Sub", "Nope"}

HeadChildren ==
    {<<Geometry("Sub", <<>>)>>, <<GeometryBeam("Sub")>>}
    \cup {<<GeometryReference("R2", target, <<>>)>> : target \in WalkTargets}

WalkCollections ==
    {<<Geometry("Base", <<GeometryBeam("B"), GeometryReference("R1", target, <<>>)>>),
       Geometry("Head", children)>> :
        target \in WalkTargets, children \in HeadChildren}

WalkInit ==
    /\ ModeIdle
    /\ RangeIdle
    /\ WriterIdle
    /\ AttrIdle
    /\ ValueIdle
    /\ LoadIdle
    /\ PackageIdle
    /\ ExpandIdle
    /\ profile \in [geometries : WalkCollections, mode_geometry : {"Base", "Head"},
                    walk : {"used", "beam"}]
    /\ frames = <<>>
    /\ geometries_list = <<>>
    /\ kpc = "new"

WalkNext == WalkBegin \/ WalkDescend \/ WalkReturn

SpecWalk == WalkInit /\ [][WalkNext]_vars

\* ------------------------------------- the expansion loop, step by step
MaxExpandSteps == 6

\* rows whose main_attribute links form a cycle (A and B), name the row
\* itself, lead into the cycle, or name a longer text that the row matches
ExpandRows ==
    {Template(<<"A">>, <<"P">>, None, None, <<"B">>),
     Template(<<"B">>, <<"P">>, None, None, <<"A">>),
     Template(<<"C", "(n)">>, <<"P">>, None, None, <<"C", "(n)">>),
     Template(<<"C", "(n)">>, <<"P">>, None, None, <<"A">>),
     Template(<<"C", "(n)">>, <<"P">>, None, None, <<"C", "(n)", "2">>)}

ExpandTables == UNION {[1..n -> ExpandRows] : n \in 0..MaxTemplates}

ExpandLinks ==
    UNION {[1..n -> {<<"A">>, <<"B">>, <<"C", "2">>, <<"D">>}] : n \in 0..MaxNames}

ExpandInit ==
    /\ ModeIdle
    /\ RangeIdle
    /\ WriterIdle
    /\ AttrIdle
    /\ ValueIdle
    /\ LoadIdle
    /\ PackageIdle
    /\ WalkIdle
    /\ expand_templates \in {_build_templates_from_data(data) : data \in ExpandTables}
    /\ expand_names \in {_collect_attribute_names(links, <<>>) : links \in ExpandLinks}
    /\ expand_queue = <<>>
    /\ expand_seen = {}
    /\ expand_ordered = <<>>
    /\ epc = "new"

\* queue = deque(attr_names); seen = set(attr_names); ordered = []
ExpandBegin ==
    /\ epc = "new"
    /\ expand_queue' = expand_names
    /\ expand_seen' = Range(expand_names)
    /\ expand_ordered' = <<>>
    /\ epc' = "loop"
    /\ UNCHANGED <<expand_templates, expand_names, notExpand>>

\* one iteration of "while queue"; ordered, seen and the queue are in memory,
\* and the iteration that finds MaxExpandSteps names in ordered has none left
\* for the next: MemoryError
ExpandStep ==
    /\ epc = "loop"
    /\ expand_queue # <<>>
    /\ IF Len(expand_ordered) >= MaxExpandSteps
       THEN /\ epc' = "MemoryError"
            /\ UNCHANGED <<expand_queue, expand_seen, expand_ordered>>
       ELSE /\ expand_queue' = Tail(expand_queue)
                          \o NewDependency(Head(expand_queue), expand_seen,
                                           expand_templates)
            /\ expand_seen' = expand_seen
                          \cup Range(NewDependency(Head(expand_queue), expand_seen,
                                                   expand_templates))
            /\ expand_ordered' = Append(expand_ordered, Head(expand_queue))
            /\ epc' = epc
    /\ UNCHANGED <<expand_templates, expand_names, notExpand>>

\* the queue is empty: return ordered
ExpandReturn ==
    /\ epc = "loop"
    /\ expand_queue = <<>>
    /\ epc' = "done"
    /\ UNCHANGED <<expand_templates, expand_names, expand_queue, expand_seen,
                   expand_ordered, notExpand>>

ExpandNext == ExpandBegin \/ ExpandStep \/ ExpandReturn

SpecExpand == ExpandInit /\ [][ExpandNext]_vars

\* ================================================================ claims
Loaded == pc \in {"loaded", "resolved", "written"}

\* the addresses of break b taken by the channels of a resolved list
Occupied(channels, b) ==
    UNION {Range(channels[k].offset) :
              k \in {j \in 1..Len(channels) : channels[j].dmx_break = b}}

BreaksOf(channels) == {channels[k].dmx_break : k \in 1..Len(channels)}

SetMax(S) == IF S = {} THEN 0 ELSE CHOOSE m \in S : \A x \in S : x <= m

\* the geometry node a resolved channel was collected at
InstanceOf(channel) == get_geometry_by_name(geometries, channel.inst)

\* the first resolution of the load, before any channel is synthesized
FirstPass ==
    _process_dmx_channels(geometries, xml_geometry,
                          [i \in 1..Len(source) |-> ParseChannel(source[i], i)])

\* C1: after load, in every break the offsets of the flattened dmx_channels
\* cover every address from 1 to the highest offset of that break
C1_NoGapPerBreak ==
    Loaded => \A b \in BreaksOf(dmx_channels) :
                 Occupied(dmx_channels, b) = 1..SetMax(Occupied(dmx_channels, b))

\* C2: after load, two distinct channels of dmx_channels in the same break
\* have disjoint offset lists
C2_AddressesDisjoint ==
    Loaded => \A i, j \in 1..Len(dmx_channels) :
                 (i # j /\ dmx_channels[i].dmx_break = dmx_channels[j].dmx_break)
                 => Range(dmx_channels[i].offset) \cap Range(dmx_channels[j].offset) = {}

\* the Break entries of reference g that give the address of a channel parsed
\* from element: the last entry for an Overwrite channel, else those of its break
EntriesFor(g, element, channel) ==
    IF element.dmx_break = Overwrite
    THEN IF g.breaks = <<>> THEN {} ELSE {Last(g.breaks)}
    ELSE {e \in Range(g.breaks) : e.dmx_break = channel.dmx_break}

\* C3: a channel instantiated through a GeometryReference has every offset
\* equal to the authored offset plus (A - 1), A the address of the
\* reference's Break entry for the channel's break, and the authored
\* channels keep their offsets
C3_ReferenceShift ==
    Loaded =>
      /\ \A k \in 1..Len(dmx_channels) :
            LET r == dmx_channels[k]
                g == InstanceOf(r)
            IN (r.src # 0 /\ g.kind = "GeometryReference"
                  /\ EntriesFor(g, source[r.src], r) # {})
               => \E e \in EntriesFor(g, source[r.src], r) :
                     r.offset = [i \in 1..Len(source[r.src].offset) |->
                                    source[r.src].offset[i] + (e.dmx_offset - 1)]
      /\ \A i \in 1..Len(source) : _dmx_channels[i].offset = source[i].offset

\* C3 witness: a channel authored at break 1 offset 1 on Head, resolved
\* through R1 and through R2 whose Break entry for break 1 has address 5: the
\* instance of R2 is at break 1 address 5, the one of R1 at another address
C3_Witness ==
    /\ pc = "loaded"
    /\ \E i, j \in 1..Len(dmx_channels) :
          /\ dmx_channels[i].src # 0
          /\ dmx_channels[i].src = dmx_channels[j].src
          /\ source[dmx_channels[j].src] =
                [dmx_break |-> 1, offset |-> <<1>>, geometry |-> "Head"]
          /\ dmx_channels[i].inst = "R1"
          /\ dmx_channels[j].inst = "R2"
          /\ InstanceOf(dmx_channels[j]).breaks = <<Break(1, 5)>>
          /\ dmx_channels[j].dmx_break = 1
          /\ dmx_channels[j].offset = <<5>>
          /\ dmx_channels[i].offset = <<2>>
          /\ _dmx_channels[dmx_channels[j].src].offset = <<1>>

\* C4: for a mode whose resolved channels lie in one break, one NoFeature
\* channel is synthesized at each address the first resolution leaves
\* unoccupied below its highest offset, no other is synthesized, and
\* dmx_channels_count is that highest offset
C4_FillersAndCount ==
    (pc = "loaded" /\ Cardinality(BreaksOf(FirstPass.dmx_channels)) = 1) =>
      LET b == CHOOSE x \in BreaksOf(FirstPass.dmx_channels) : TRUE
          highest == SetMax(Occupied(FirstPass.dmx_channels, b))
          holes == (1..highest) \ Occupied(FirstPass.dmx_channels, b)
          fillers == {k \in 1..Len(_dmx_channels) : _dmx_channels[k].src = 0}
      IN /\ Cardinality(fillers) = Cardinality(holes)
         /\ \A a \in holes :
               \E k \in fillers : /\ _dmx_channels[k].offset = <<a>>
                                   /\ _dmx_channels[k].attribute = "NoFeature"
         /\ dmx_channels_count = highest

\* C7: the written DMXMode has exactly the DMXChannel children of the source
\* document, in the same order
C7_SameChannelElements ==
    pc = "written" => [k \in 1..Len(written) |-> written[k].src]
                      = [k \in 1..Len(source) |-> k]

\* C10: an Overwrite channel instantiated through a GeometryReference that
\* has Break entries is resolved into the break of the last entry
C10_OverwriteTakesLastBreak ==
    Loaded => \A k \in 1..Len(dmx_channels) :
                 LET r == dmx_channels[k]
                     g == InstanceOf(r)
                 IN (r.src # 0 /\ source[r.src].dmx_break = Overwrite
                       /\ g.kind = "GeometryReference" /\ g.breaks # <<>>)
                    => r.dmx_break = Last(g.breaks).dmx_break

\* ------------------------------------------------------ claims on ranges
\* the orders that sort the parsed functions by ascending dmx_from
AscendingOrders ==
    LET n == Len(channel_functions) IN
    {p \in [1..n -> 1..n] :
        /\ \A i, j \in 1..n : i # j => p[i] # p[j]
        /\ \A i \in 1..(n - 1) : channel_functions[p[i]].dmx_from.value
                                  <= channel_functions[p[i + 1]].dmx_from.value}

\* the highest value of the channel as seen from function f
FullRange(f) ==
    2 ^ (8 * (IF channel_offset = NoOffset THEN f.dmx_from.byte_count
              ELSE Len(channel_offset))) - 1

\* in order p every function ends one below the start of the next one and
\* the last one ends at the highest value
Contiguous(p) ==
    LET n == Len(channel_functions) IN
    /\ \A i \in 1..(n - 1) : channel_functions[p[i]].dmx_to.value + 1
                              = channel_functions[p[i + 1]].dmx_from.value
    /\ channel_functions[p[n]].dmx_to.value = FullRange(channel_functions[p[n]])

DistinctFrom ==
    \A i, j \in 1..Len(channel_functions) :
        i # j => channel_functions[i].dmx_from.value # channel_functions[j].dmx_from.value

\* C5 as stated: for any multiset of authored dmx_from values the parsed
\* functions, sorted by dmx_from ascending, are contiguous and the last one
\* ends at 2^(8*byte_count) - 1
C5_AnyMultiset ==
    rpc = "parsed" => \E p \in AscendingOrders : Contiguous(p)

\* C5: when the authored dmx_from values are pairwise distinct the functions,
\* sorted by dmx_from ascending, are contiguous and the last one ends at
\* 2^(8*byte_count) - 1; when all functions start at 0 each of them ends at
\* 2^(8*byte_count) - 1
C5_DistinctFrom ==
    rpc = "parsed" =>
      /\ DistinctFrom => \A p \in AscendingOrders : Contiguous(p)
      /\ (\A i \in 1..Len(channel_functions) : channel_functions[i].dmx_from.value = 0)
            => \A i \in 1..Len(channel_functions) :
                  channel_functions[i].dmx_to.value = FullRange(channel_functions[i])

\* C5 witness: three functions at three different values on a two-byte channel
C5_Witness ==
    /\ rpc = "parsed"
    /\ Len(channel_offset) = 2
    /\ Len(channel_functions) = 3
    /\ DistinctFrom
    /\ channel_functions[1].dmx_from.value = 128
    /\ channel_functions[1].dmx_to.value = 65535

\* Offset="1,2" with functions at DMXFrom="0/1" and DMXFrom="128/1", parsed
C6_Scenario ==
    /\ rpc = "parsed"
    /\ channel_offset = <<1, 2>>
    /\ function_elements = << <<0, 1>>, <<128, 1>> >>

FunctionRanges ==
    [i \in 1..Len(channel_functions) |->
        <<channel_functions[i].dmx_from.value, channel_functions[i].dmx_to.value>>]

\* C6 as stated: the scenario resolves to the ranges [0,127] and [128,255]
C6_EightBitRanges ==
    C6_Scenario => FunctionRanges = << <<0, 127>>, <<128, 255>> >>

\* C6: the scenario resolves to the ranges [0,127] and [128,65535]; the
\* upper end is the two-byte maximum, the lower end keeps byte count 1
C6_ChannelWidthRanges ==
    C6_Scenario =>
      /\ FunctionRanges = << <<0, 127>>, <<128, 65535>> >>
      /\ channel_functions[1].dmx_to.byte_count = 1
      /\ channel_functions[2].dmx_to.byte_count = 2

\* C6 witness: the scenario has been parsed and the second function ends
\* above the first one
C6_Witness ==
    /\ C6_Scenario
    /\ channel_functions[2].dmx_to.value > channel_functions[1].dmx_to.value

\* ------------------------------------------------ claims on the writer
\* the optional attributes of an element, by tag
OptionalKeys(tag) ==
    CASE tag = "LogicalChannel" -> {"Snap", "Master", "MibFade", "DMXChangeTimeLimit"}
      [] tag = "ChannelFunction" ->
           {"Default", "PhysicalFrom", "PhysicalTo", "RealFade", "DMXInvert",
            "ModeFrom", "ModeTo", "Min", "Max", "CustomName"}
      [] tag = "ChannelSet" -> {"PhysicalFrom", "PhysicalTo"}

\* C8: an element parsed and written without a caller's assignment has an
\* optional attribute on the written element if and only if the source
\* element had it
C8_PresentIffInSource ==
    (wpc = "written" /\ api_set = NoName) =>
        \A k \in OptionalKeys(element_tag) :
            (k \in DOMAIN output_attrib) <=> (k \in DOMAIN element_attrib)

\* C9: a written ChannelFunction or ChannelSet has every optional attribute
\* whose key was recorded at parse time or whose value is not the default;
\* a PhysicalFrom or PhysicalTo a caller has assigned is written
C9_EmittedWhenRecordedOrSet ==
    (wpc = "written" /\ element_tag \in {"ChannelFunction", "ChannelSet"}) =>
      /\ \A k \in OptionalKeys(element_tag) :
            k \in node._attr_keys => k \in DOMAIN output_attrib
      /\ element_tag = "ChannelFunction" =>
            /\ node.default # [value |-> 0, byte_count |-> 1]
                  => "Default" \in DOMAIN output_attrib
            /\ node.physical_from # Some(0) => "PhysicalFrom" \in DOMAIN output_attrib
            /\ node.physical_to # Some(1) => "PhysicalTo" \in DOMAIN output_attrib
            /\ node.real_fade # 0 => "RealFade" \in DOMAIN output_attrib
            /\ node.dmx_invert # "No" => "DMXInvert" \in DOMAIN output_attrib
            /\ node.mode_from # [value |-> 0, byte_count |-> 1]
                  => "ModeFrom" \in DOMAIN output_attrib
            /\ node.mode_to # [value |-> 0, byte_count |-> 1]
                  => "ModeTo" \in DOMAIN output_attrib
            /\ node.custom_name # None => "CustomName" \in DOMAIN output_attrib
      /\ api_set = "physical_from" => "PhysicalFrom" \in DOMAIN output_attrib
      /\ api_set = "physical_to" => "PhysicalTo" \in DOMAIN output_attrib

\* ------------------------------------------- claims on reference expansion
\* the nodes of a tree, the root first
RECURSIVE TreeNodes(_)
RECURSIVE ForestNodes(_)
TreeNodes(g) == <<g>> \o ForestNodes(g.geometries)

ForestNodes(gs) ==
    IF gs = <<>> THEN <<>> ELSE TreeNodes(Head(gs)) \o ForestNodes(Tail(gs))

\* the GeometryReference nodes of the mode's tree that target the tree named
ReferencesTo(target) ==
    {n \in Range(TreeNodes(DmxRootGeometry(geometries, xml_geometry))) :
        n.kind = "GeometryReference" /\ n.geometry = target}

\* the names of the geometries below the top-level tree named
DescendantsOf(target) ==
    {n.name : n \in Range(ForestNodes(get_geometry_by_name(geometries, target).geometries))}

\* the instances of source element i in a resolved list
InstancesOf(channels, i) == {k \in 1..Len(channels) : channels[k].src = i}

\* C11: a channel mounted on a descendant geometry of a referenced tree is
\* instantiated once for every GeometryReference that targets the tree: a
\* virtual channel has one instance per reference in virtual_channels, and
\* a DMX channel that is alone in the mode has an instance in dmx_channels
C11_InstancePerReference ==
    Loaded =>
      \A i \in 1..Len(source) : \A t \in {geometries[k].name : k \in 1..Len(geometries)} :
         (ReferencesTo(t) # {} /\ source[i].geometry \in DescendantsOf(t)) =>
            IF source[i].offset = NoOffset
            THEN Cardinality(InstancesOf(virtual_channels, i))
                    = Cardinality(ReferencesTo(t))
            ELSE Len(source) = 1 => InstancesOf(dmx_channels, i) # {}

\* --------------------------------------------- claims on the regeneration
\* the texts a placeholder can capture from the names in use
DigitTexts == {<<"2">>, <<"3">>, <<"2", "3">>}

PlaceholderKeys(text) ==
    {GroupOf(text[k]) : k \in {j \in 1..Len(text) : text[j] \in Placeholders}}

\* the digit captures with which the name of a row is the whole of name
WholeMatches(row, name) ==
    {g \in [PlaceholderKeys(row.name) -> DigitTexts] :
        _apply_placeholders(row.name, g) = name}

NoPlaceholder(text) ==
    \A k \in 1..Len(text) : text[k] \notin {"(n)", "(m)", "(N)", "(M)"}

HasExactTemplate(name) == \E k \in 1..Len(templates) : templates[k].name = name

\* the wildcard rows, in table order, whose pattern is the whole of name
WholeMatchRows(name) ==
    SelectSeq(_build_templates_from_data(templates).wildcard,
              LAMBDA row : WholeMatches(row, name) # {})

\* C12: a name without an exact template gets the first wildcard row, in
\* table order, whose pattern matches the whole name, and no other row; the
\* pretty name, activation group and feature of the generated Attribute are
\* those of the row with every placeholder replaced by the captured digits
C12_FirstWholeMatch ==
    apc = "done" =>
      \A k \in 1..Len(regenerated.attributes) :
         LET attr == regenerated.attributes[k] IN
         ~HasExactTemplate(attr.name) =>
            IF WholeMatchRows(attr.name) = <<>> THEN attr.origin # "template"
            ELSE /\ attr.origin = "template"
                 /\ NoPlaceholder(attr.pretty)
                 /\ NoPlaceholder(attr.activation_group)
                 /\ NoPlaceholder(attr.feature)
                 /\ \E g \in WholeMatches(WholeMatchRows(attr.name)[1], attr.name) :
                       /\ attr.pretty =
                            _apply_placeholders(WholeMatchRows(attr.name)[1].pretty, g)
                       /\ attr.activation_group =
                            _apply_placeholders(
                               WholeMatchRows(attr.name)[1].activation_group, g)
                       /\ attr.feature =
                            _apply_placeholders(WholeMatchRows(attr.name)[1].feature, g)

\* the names the channels link to
ReferencedNames == Range(attr_names) \ {<<>>}

\* the branch the loop takes for a name: a template match is what
\* _match_attribute_template finds in the table
ExpectedOrigin(name) ==
    IF _match_attribute_template(name, _build_templates_from_data(templates)).template
          # None
    THEN "template"
    ELSE IF \E k \in 1..Len(attributes) : attributes[k].name = name THEN "authored"
    ELSE "fallback"

\* C13: the result has exactly one Attribute for every name a channel links
\* to; an Attribute comes from the template its name matches, else it is the
\* authored attribute of that name unchanged, else the fallback with feature
\* Control.Control; missing_attributes lists exactly the names that took the
\* fallback, each once
C13_OneAttributePerName ==
    apc = "done" =>
      /\ \A name \in ReferencedNames :
            Cardinality({k \in 1..Len(regenerated.attributes) :
                            regenerated.attributes[k].name = name}) = 1
      /\ \A k \in 1..Len(regenerated.attributes) :
            LET attr == regenerated.attributes[k] IN
            /\ attr.origin = ExpectedOrigin(attr.name)
            /\ attr.origin = "authored" =>
                  \E j \in 1..Len(attributes) : attr = attributes[j]
            /\ attr.origin = "fallback" =>
                  attr.feature = <<"Control", ".", "Control">>
      /\ Range(regenerated.missing_attributes)
            = {regenerated.attributes[k].name :
                  k \in {j \in 1..Len(regenerated.attributes) :
                            regenerated.attributes[j].origin = "fallback"}}
      /\ Cardinality(Range(regenerated.missing_attributes))
            = Len(regenerated.missing_attributes)

\* C13 witness: the names 2C and D are linked; 2C matches the row (n)C, whose
\* main attribute CC is authored, and D takes the fallback
C13_Witness ==
    /\ apc = "done"
    /\ attr_names = << <<"2", "C">>, <<"D">> >>
    /\ [k \in 1..Len(regenerated.attributes) |-> regenerated.attributes[k].origin]
          = <<"template", "fallback", "authored">>
    /\ regenerated.attributes[3].name = <<"C", "C">>
    /\ regenerated.missing_attributes = << <<"D">> >>

\* ---------------------------------------------- claims on value functions
\* C14: over a range with dmx_to # dmx_from and any physical ends, the
\* physical value at dmx_from is physical_from and at dmx_to is physical_to
C14_EndsMapToEnds ==
    (vpc = "returned" /\ call.function = "dmx_to_physical"
       /\ call.dmx_to # call.dmx_from) =>
      /\ call.dmx_value = call.dmx_from => result = call.physical_from
      /\ call.dmx_value = call.dmx_to => result = call.physical_to

\* C19: for a byte count from 1 to 4 get_value() is the most significant
\* byte of the value and get_value(fine=True) the least significant one;
\* for byte count 1 both are the value
C19_MostAndLeastSignificant ==
    (vpc = "returned" /\ call.function = "get_value") =>
      result = IF call.fine THEN Last(call.bytes) ELSE Head(call.bytes)

\* ------------------------------------------------------ claims on loading
Malformed(description) == fromstring(description) = None

\* C15: loading a malformed description, from an archive or from a bare
\* file, raises nothing and gives the model named "Original File Had Broken
\* XML"
C15_BrokenXmlNeverRaises ==
    (lpc = "loaded" /\ Malformed(file.description)) =>
      fixture = Constructed(BrokenXmlName)

\* ------------------------------------------- claims on repeated resolution
\* offset list and dmx_break of every authored channel
Authored(channels) ==
    [k \in 1..Len(channels) |->
        [offset |-> channels[k].offset, dmx_break |-> channels[k].dmx_break]]

\* C16: resolution run again on the loaded or resolved mode completes and
\* gives the same dmx_channels, virtual_channels, breaks and counts, and
\* leaves offset and dmx_break of every authored channel as they were
C16_ResolveIdempotent ==
    [][(pc \in {"loaded", "resolved"} /\ pc' \in {"resolved", "error"}) =>
          /\ pc' = "resolved"
          /\ dmx_channels' = dmx_channels
          /\ virtual_channels' = virtual_channels
          /\ dmx_breaks' = dmx_breaks
          /\ dmx_channels_count' = dmx_channels_count
          /\ virtual_channels_count' = virtual_channels_count
          /\ Authored(_dmx_channels') = Authored(_dmx_channels)]_vars

\* ----------------------------------------------- claims on package writer
\* C17: every written description shows the model as it is when write_gdtf
\* is called, whether it was changed before or after the writer was made
C17_WritesModelAtCall ==
    \A k \in 1..Len(packages) :
        packages[k].description.Name = packages[k].fixture_type.channel_set_name

\* C18: the DataVersion of every written description is the data_version
\* argument of that call, or the declared data_version of the fixture type
\* when the call has none
C18_VersionOfTheCall ==
    \A k \in 1..Len(packages) :
        packages[k].description.DataVersion =
            IF packages[k].data_version # None THEN packages[k].data_version[1]
            ELSE packages[k].fixture_type.data_version

\* ------------------------------------------ claims on Overwrite channels
\* the geometry named is no GeometryReference, or one without Break entries
NoBreakContext(name) ==
    \A n \in Range(ForestNodes(geometries)) :
        n.name = name => (~HasBreaks(n) \/ n.breaks = <<>>)

\* every instance of an Overwrite channel made on a geometry without Break
\* context is in break 1 at the authored offsets, and such a channel alone
\* on the root geometry has an instance
OverwriteInBreakOne ==
    /\ \A k \in 1..Len(dmx_channels) :
          LET channel == dmx_channels[k] IN
          (channel.src # 0 /\ source[channel.src].dmx_break = Overwrite
             /\ NoBreakContext(channel.inst)) =>
                /\ channel.dmx_break = 1
                /\ channel.offset = source[channel.src].offset
    /\ (Len(source) = 1 /\ source[1].dmx_break = Overwrite
          /\ source[1].offset # NoOffset /\ source[1].geometry = "Base") =>
             InstancesOf(dmx_channels, 1) # {}

\* C20: resolving a mode with an Overwrite channel never fails, and an
\* Overwrite channel on a GeometryReference without Break entries or on a
\* geometry that is no reference is placed in break 1, offsets unshifted
C20_OverwriteNeverFails ==
    /\ pc # "error"
    /\ Loaded => OverwriteInBreakOne

\* ------------------------------------------------ claims on the fixed point
\* mode._check_for_missing_channels() on the loaded mode finds no hole and
\* appends nothing
CheckFindsNoHole(check) ==
    ~check.result /\ check.chans = _dmx_channels

\* mode._process_dmx_channels() on the loaded mode gives what the load gave
ThirdResolveSame(third) ==
    /\ ~third.error
    /\ third.dmx_channels = dmx_channels
    /\ third.dmx_breaks = dmx_breaks
    /\ third.dmx_channels_count = dmx_channels_count
    /\ third.virtual_channels_count = virtual_channels_count

\* C21: after the load (resolve, add fillers, resolve again) one more check
\* for missing channels finds no hole and appends nothing, and one more
\* resolve gives the same channel list and counts, also for a mode that
\* names no geometry and falls back to the single tree
C21_TwoPassFixedPoint ==
    pc = "loaded" =>
      /\ CheckFindsNoHole(_check_for_missing_channels(dmx_channels, _dmx_channels,
                                                      geometry))
      /\ ThirdResolveSame(_process_dmx_channels(geometries, geometry, _dmx_channels))

\* --------------------------------------------- claims on covering ranges
\* value v lies in the range of a function of the parsed LogicalChannel
CoveredByFunction(v) ==
    \E i \in 1..Len(channel_functions) :
        /\ channel_functions[i].dmx_from.value <= v
        /\ v <= channel_functions[i].dmx_to.value

\* C22: the ranges of the functions of a LogicalChannel are non-empty and
\* cover the domain from 0 to 2^(8*byte_count) - 1 without a gap: 0 is
\* covered, and the value after the end of every range is covered unless the
\* range ends at the top of the domain
C22_RangesCoverDomain ==
    rpc = "parsed" =>
      /\ \A i \in 1..Len(channel_functions) :
            /\ 0 <= channel_functions[i].dmx_from.value
            /\ channel_functions[i].dmx_from.value <= channel_functions[i].dmx_to.value
            /\ \/ channel_functions[i].dmx_to.value = FullRange(channel_functions[i])
               \/ CoveredByFunction(channel_functions[i].dmx_to.value + 1)
      /\ CoveredByFunction(0)

\* ------------------------------------------------ claims on channel sets
\* the orders of the parsed channel sets by descending dmx_from
DescendingSetOrders ==
    LET n == Len(channel_sets) IN
    {p \in [1..n -> 1..n] :
        /\ \A i, j \in 1..n : i # j => p[i] # p[j]
        /\ \A i \in 1..(n - 1) : channel_sets[p[i]].dmx_from.value
                                  >= channel_sets[p[i + 1]].dmx_from.value}

\* in order p the first set ends where the function ends and every other
\* set ends one below the start of the set before it
SetBoundaryRule(p) ==
    /\ channel_sets # <<>> =>
          channel_sets[p[1]].dmx_to.value = channel_functions[set_function].dmx_to.value
    /\ \A i \in 2..Len(channel_sets) :
          channel_sets[p[i]].dmx_to.value = channel_sets[p[i - 1]].dmx_from.value - 1

\* no value lies in the ranges of two sets
SetsDisjoint ==
    \A i, j \in 1..Len(channel_sets) :
        i # j => \/ channel_sets[i].dmx_to.value < channel_sets[j].dmx_from.value
                 \/ channel_sets[j].dmx_to.value < channel_sets[i].dmx_from.value
                 \/ channel_sets[i].dmx_to.value < channel_sets[i].dmx_from.value
                 \/ channel_sets[j].dmx_to.value < channel_sets[j].dmx_from.value

NoSetAboveFunction ==
    \A i \in 1..Len(channel_sets) :
        channel_sets[i].dmx_to.value <= channel_functions[set_function].dmx_to.value

\* the sets start inside the function's range, or right after its end
SetsStartInFunction ==
    \A i \in 1..Len(channel_sets) :
        channel_sets[i].dmx_from.value <= channel_functions[set_function].dmx_to.value + 1

\* C23 as stated: the boundary rule holds in descending order, the sets of
\* the function do not overlap and none ends above the function's dmx_to
C23_SetsWithinFunction ==
    rpc = "parsed" =>
      /\ \E p \in DescendingSetOrders : SetBoundaryRule(p)
      /\ SetsDisjoint
      /\ NoSetAboveFunction

\* C23: the boundary rule holds in descending order and the sets of the
\* function do not overlap; none ends above the function's dmx_to when no
\* set starts more than one above it
C23_SetBoundaries ==
    rpc = "parsed" =>
      /\ \E p \in DescendingSetOrders : SetBoundaryRule(p)
      /\ SetsDisjoint
      /\ SetsStartInFunction => NoSetAboveFunction

\* C23 witness: two sets at 0 and 100 of the function [0, 127] of a one-byte
\* channel get the ranges [0, 99] and [100, 127]
C23_Witness ==
    /\ rpc = "parsed"
    /\ channel_offset = <<1>>
    /\ function_elements = << <<0, 1>>, <<128, 1>> >>
    /\ set_function = 1
    /\ set_elements = << <<0, 1>>, <<100, 1>> >>
    /\ channel_sets[1].dmx_to.value = 99
    /\ channel_sets[2].dmx_to.value = 127

\* ------------------------------------------ claims on the closure of links
\* C24: every attribute of the regenerated list that has a main_attribute
\* link, made from a template or reused from the file, has the attribute of
\* that name in the list too
C24_ClosedUnderMainAttribute ==
    apc = "done" =>
      \A k \in 1..Len(regenerated.attributes) :
         regenerated.attributes[k].main_attribute # None =>
            \E j \in 1..Len(regenerated.attributes) :
               regenerated.attributes[j].name = regenerated.attributes[k].main_attribute

\* ------------------------------------------------------- claims on walks
\* C25: the walks that follow the targets of references return for every
\* collection, also when a reference targets a geometry that contains it:
\* no call reaches the depth at which RecursionError is raised
C25_WalkReturns == kpc # "RecursionError"

\* --------------------------------------------- claims on the references
\* the resolved channels of both lists
ResolvedChannels == dmx_channels \o virtual_channels

\* the resolved channels collected at a GeometryReference from an authored
\* channel
ReferenceInstances ==
    {k \in 1..Len(ResolvedChannels) :
        /\ ResolvedChannels[k].src \in 1..Len(source)
        /\ InstanceOf(ResolvedChannels[k]).kind = "GeometryReference"}

DanglingReferences ==
    {n.name : n \in {m \in Range(ForestNodes(geometries)) :
                        /\ m.kind = "GeometryReference"
                        /\ get_geometry_by_name(geometries, m.geometry).kind = "None"}}

\* C27: a GeometryReference whose target names no geometry contributes no
\* channel to the resolved lists of the mode, also when an authored channel
\* names the missing geometry, and the resolution raises no error
C27_DanglingContributesNothing ==
    /\ pc # "error"
    /\ Loaded =>
         \A k \in 1..Len(ResolvedChannels) :
            ResolvedChannels[k].inst \notin DanglingReferences

\* ------------------------------------------- claims on the edited mode
\* what resolving the authored list against the geometry tree produces now
ResolvedNow == _process_dmx_channels(geometries, geometry, _dmx_channels)

\* C28: on a mode built through the API, after every construction, append or
\* removal of an authored channel and every change of the geometry tree, the
\* derived fields are what resolving the authored list against the tree
\* produces
C28_DerivedUpToDate ==
    (pc \in {"constructed", "processed"} /\ ~ResolvedNow.error) =>
       /\ dmx_channels = ResolvedNow.dmx_channels
       /\ virtual_channels = ResolvedNow.virtual_channels
       /\ dmx_breaks = ResolvedNow.dmx_breaks
       /\ dmx_channels_count = ResolvedNow.dmx_channels_count
       /\ virtual_channels_count = ResolvedNow.virtual_channels_count

\* ------------------------------------------- claims on the collection root
\* the channels collected from the tree under root, for the authored list
CollectedFrom(root) ==
    LET st == _get_channels_for_geometry(root, [chans |-> _dmx_channels, list |-> <<>>])
    IN [k \in 1..Len(st.list) |-> st.list[k].channel]

\* the authored channel and the geometry node of every channel of a list
Instances(channels) == [k \in 1..Len(channels) |-> <<channels[k].src, channels[k].inst>>]

\* C29: after load, virtual_channels is the list of the channels without an
\* offset collected from the root geometry of the DMX channels, which is the
\* single tree when the mode's geometry name does not resolve, and every
\* channel of dmx_channels has an offset
C29_SameRoot ==
    pc = "loaded" =>
       /\ Instances(virtual_channels)
             = Instances(SelectSeq(CollectedFrom(DmxRootGeometry(geometries, xml_geometry)),
                                   LAMBDA channel : channel.offset = NoOffset))
       /\ \A k \in 1..Len(dmx_channels) : dmx_channels[k].offset # NoOffset

\* ------------------------------------------- claims on the expansion loop
\* the positions of a name in the returned list
PositionsIn(list, name) == {k \in 1..Len(list) : list[k] = name}

\* the returned list holds the input names first, in their order, and every
\* name once
ExpandedInOrder ==
    /\ Len(expand_ordered) >= Len(expand_names)
    /\ SubSeq(expand_ordered, 1, Len(expand_names)) = expand_names
    /\ \A k \in 1..Len(expand_ordered) :
          PositionsIn(expand_ordered, expand_ordered[k]) = {k}

\* C30: _expand_attribute_dependencies returns for every template table: the
\* loop never goes on until the memory is used up; and the list it returns
\* holds the input names first, in their order, and every input name and
\* every discovered dependency once
C30_ExpandTerminates ==
    /\ epc # "MemoryError"
    /\ epc = "done" => ExpandedInOrder

====
